---- MODULE Spec2Model ----
(***************************************************************************)
(* A model of the pak container engine of u4pak_gui.py: the record codec,  *)
(* the block pipeline, the archive index, the integrity verifier and the   *)
(* in-place update.  The archive file is a sequence of bytes (0..255); a   *)
(* stream is the file together with its cursor.  Operators keep the names  *)
(* of the Python functions they are translated from.                       *)
(***************************************************************************)
EXTENDS Integers, Sequences, FiniteSets, Bags, TLC

(***************************************************************************)
(* Bounds of the model.                                                    *)
(***************************************************************************)
\* io.DEFAULT_BUFFER_SIZE (8192 in CPython), scaled down so that the chunked
\* loops take both their full-buffer and their remainder branch.
DEFAULT_BUFFER_SIZE == 4
\* Integers decoded from the file saturate here (the model's files are far
\* shorter), so that garbage fields stay comparable without overflow.
Huge == 16777216
\* How many updates reach their commit phase on one packed archive.
MaxOps == 2

Min(a, b) == IF a < b THEN a ELSE b
Max(a, b) == IF a > b THEN a ELSE b

Zeros(n) == [i \in 1..n |-> 0]

Last(s) == s[Len(s)]

Reverse(s) == [i \in 1..Len(s) |-> s[Len(s) + 1 - i]]

RECURSIVE Flatten(_)
Flatten(ss) == IF ss = <<>> THEN <<>> ELSE Head(ss) \o Flatten(Tail(ss))

(***************************************************************************)
(* struct.pack / struct.unpack of little-endian unsigned integers.         *)
(***************************************************************************)
RECURSIVE LE(_, _)
LE(n, k) == IF k = 0 THEN <<>> ELSE <<n % 256>> \o LE(n \div 256, k - 1)

UnLE(bs) ==
    IF \E i \in 4..Len(bs) : bs[i] # 0 THEN Huge
    ELSE (IF Len(bs) >= 1 THEN bs[1] ELSE 0)
       + (IF Len(bs) >= 2 THEN 256 * bs[2] ELSE 0)
       + (IF Len(bs) >= 3 THEN 65536 * bs[3] ELSE 0)

\* struct.unpack('<i', b): a set top bit makes the value negative.
UnLESigned(bs) ==
    IF bs[4] >= 128 THEN 0 - (UnLE([i \in 1..4 |-> 255 - bs[i]]) + 1)
    ELSE UnLE(bs)

(***************************************************************************)
(* hashlib.sha1: a positional checksum over the bytes fed to it, 20 bytes  *)
(* wide.  The hasher keeps the sum so far and the count of bytes fed, so   *)
(* feeding a stream in chunks and in one piece agree, and changing one     *)
(* byte, or one byte's position, changes the digest.                       *)
(***************************************************************************)
HashInit == [h |-> 7, n |-> 0]

\* the sum of a sequence of positive numbers
SumSeq(s) == IF s = <<>> THEN 0 ELSE BagCardinality(s)

HashUpdate(st, data) ==
    [h |-> (st.h + SumSeq([i \in 1..Len(data) |-> (data[i] + 1) * (st.n + i)])) % 65521,
     n |-> st.n + Len(data)]

Digest(st) == LE(st.h, 20)

Sha1(data) == Digest(HashUpdate(HashInit, data))

NullSha1 == Zeros(20)

(***************************************************************************)
(* zlib.compress / zlib.decompress: a lossless run-length code behind a    *)
(* one-byte stream header, so that the compressed length differs from the  *)
(* plain length in both directions.                                        *)
(***************************************************************************)
RECURSIVE RunLen(_, _)
RunLen(data, i) ==
    IF i < Len(data) /\ data[i + 1] = data[i] THEN 1 + RunLen(data, i + 1) ELSE 1

RECURSIVE RleFrom(_, _)
RleFrom(data, i) ==
    IF i > Len(data) THEN <<>>
    ELSE LET n == RunLen(data, i) IN <<n, data[i]>> \o RleFrom(data, i + n)

zlib_compress(data) == <<120>> \o RleFrom(data, 1)

\* zlib.error on anything that is not a well-formed stream
zlib_ok(c) ==
    /\ Len(c) >= 1
    /\ c[1] = 120
    /\ Len(c) % 2 = 1
    /\ \A k \in 1..((Len(c) - 1) \div 2) : c[2 * k] >= 1

RECURSIVE UnRleFrom(_, _)
UnRleFrom(c, k) ==
    IF 2 * k + 1 > Len(c) THEN <<>>
    ELSE [i \in 1..c[2 * k] |-> c[2 * k + 1]] \o UnRleFrom(c, k + 1)

zlib_decompress(c) == UnRleFrom(c, 1)

(***************************************************************************)
(* A stream: the file's bytes and the cursor (io.BufferedRandom).          *)
(***************************************************************************)
Stream(f, p) == [f |-> f, pos |-> p]

seek(s, p) == [s EXCEPT !.pos = p]

\* write at the cursor; a gap left by seeking past the end reads as zeros
write(s, data) ==
    IF Len(data) = 0 THEN s
    ELSE LET n == Max(Len(s.f), s.pos + Len(data)) IN
         [f   |-> [i \in 1..n |->
                      IF i > s.pos /\ i <= s.pos + Len(data) THEN data[i - s.pos]
                      ELSE IF i <= Len(s.f) THEN s.f[i] ELSE 0],
          pos |-> s.pos + Len(data)]

\* the bytes a read of n at the cursor returns: fewer at the end of the file
readbytes(s, n) == SubSeq(s.f, s.pos + 1, Min(s.pos + n, Len(s.f)))

advance(s, n) == [s EXCEPT !.pos = s.pos + Len(readbytes(s, n))]

truncate(f, n) == IF n <= Len(f) THEN SubSeq(f, 1, n) ELSE f \o Zeros(n - Len(f))

(***************************************************************************)
(* The files of the host file system that pack and update read.  A name is *)
(* a sequence of character codes, "/" (47) the separator.                  *)
(***************************************************************************)
SEP == 47
NameA  == <<97>>
NameB  == <<98>>
NameDC == <<100, 47, 99>>
NameD  == <<100>>
NameAX == <<97, 47, 120>>
NameE  == <<101>>

FsFiles == {NameA, NameB, NameDC}

FsContent(name) ==
    CASE name = NameA  -> <<10, 11, 12>>
      [] name = NameB  -> <<20, 20, 20, 20, 21>>
      [] name = NameDC -> <<30>>
      [] OTHER         -> <<>>

FsMtime(name) ==
    CASE name = NameA  -> 5
      [] name = NameB  -> 6
      [] OTHER         -> 7

os_path_isdir(name) == name = NameD

\* os.os_walk(name): the files below a directory
os_walk(name) == IF name = NameD THEN <<NameDC>> ELSE <<>>

os_path_exists(name) == name \in FsFiles

RECURSIVE expand(_)
expand(names) ==
    IF names = <<>> THEN <<>>
    ELSE (IF os_path_isdir(Head(names)) THEN os_walk(Head(names)) ELSE <<Head(names)>>)
         \o expand(Tail(names))

\* Python's str comparison: lexicographic by code point
RECURSIVE StrLess(_, _)
StrLess(a, b) ==
    IF b = <<>> THEN FALSE
    ELSE IF a = <<>> THEN TRUE
    ELSE IF Head(a) # Head(b) THEN Head(a) < Head(b)
    ELSE StrLess(Tail(a), Tail(b))

(***************************************************************************)
(* Path codec.  Names are ASCII, so their UTF-8 encoding has one byte per  *)
(* character; the host separator is "/", so the replace() calls change     *)
(* nothing.                                                                *)
(***************************************************************************)
pack_path(path) == LE(Len(path) + 1, 4) \o path \o <<0>>

RECURSIVE rstrip0(_)
rstrip0(s) == IF s # <<>> /\ Last(s) = 0 THEN rstrip0(SubSeq(s, 1, Len(s) - 1)) ELSE s

\* bytes.decode('utf-16le'): one code unit per byte pair
utf16(raw) == [i \in 1..(Len(raw) \div 2) |-> raw[2 * i - 1] + 256 * raw[2 * i]]

\* read_path: {ok, path, s}; ok is FALSE where struct.unpack or decode raises
read_path(s) ==
    LET Decoded(n, raw, s2) ==
            IF n < 0
            THEN [ok   |-> Len(raw) % 2 = 0,
                  path |-> rstrip0(utf16(raw)), s |-> s2]
            ELSE [ok   |-> \A i \in 1..Len(raw) : raw[i] < 128,
                  path |-> rstrip0(raw), s |-> s2]
        Sized(n, path_len) ==
            Decoded(n, readbytes(advance(s, 4), path_len),
                    advance(advance(s, 4), path_len))
        Length(lb) ==
            IF Len(lb) < 4 THEN [ok |-> FALSE, path |-> <<>>, s |-> s]
            ELSE Sized(UnLESigned(lb),
                       IF UnLESigned(lb) < 0 THEN (0 - 2) * UnLESigned(lb)
                       ELSE UnLESigned(lb))
    IN  Length(readbytes(s, 4))

(***************************************************************************)
(* Records.  None is <<>> and a present optional value v is <<v>>.         *)
(***************************************************************************)
COMPR_NONE        == 0
COMPR_ZLIB        == 1
COMPR_BIAS_MEMORY == 16
COMPR_BIAS_SPEED  == 32
COMPR_METHODS == {COMPR_NONE, COMPR_ZLIB, COMPR_BIAS_MEMORY, COMPR_BIAS_SPEED}

None == <<>>
Some(v) == <<v>>

Record(cls, filename, offset, csize, usize, cm, timestamp, sha1, blocks, encrypted, cbs) ==
    [cls |-> cls, filename |-> filename, offset |-> offset,
     compressed_size |-> csize, uncompressed_size |-> usize,
     compression_method |-> cm, timestamp |-> timestamp,
     sha1 |-> sha1, compression_blocks |-> blocks,
     encrypted |-> encrypted, compression_block_size |-> cbs]

RecordV1(filename, offset, csize, usize, cm, timestamp, sha1) ==
    Record("V1", filename, offset, csize, usize, cm, Some(timestamp), sha1,
           None, FALSE, None)

RecordV2(filename, offset, csize, usize, cm, sha1) ==
    Record("V2", filename, offset, csize, usize, cm, None, sha1, None, FALSE, None)

RecordV3(filename, offset, csize, usize, cm, sha1, blocks, encrypted, cbs) ==
    Record("V3", filename, offset, csize, usize, cm, None, sha1, blocks,
           encrypted, Some(cbs))

RecordV7(filename, offset, csize, usize, cm, sha1, blocks, encrypted, cbs) ==
    Record("V7", filename, offset, csize, usize, cm, None, sha1, blocks,
           encrypted, Some(cbs))

NoRecord == RecordV2(<<>>, 0, 0, 0, 0, <<>>)

\* RecordV1/V2/V3.header_size
header_size(r) ==
    CASE r.cls = "V1" -> 56
      [] r.cls = "V2" -> 48
      [] OTHER ->
           53 + (IF r.compression_method # COMPR_NONE
                 THEN Len(r.compression_blocks[1]) * 16 ELSE 0)

\* Record.base_offset, overridden by RecordV7
base_offset(r) == IF r.cls = "V7" THEN r.offset ELSE 0

data_offset(r) == r.offset + header_size(r)

alloc_size(r) == header_size(r) + r.compressed_size

\* Record.index_size: the encoded name and the header
index_size(r) == (4 + Len(r.filename) + 1) + header_size(r)

\* same_metadata: every field but filename and offset
same_metadata(r1, r2) ==
    /\ r1.compressed_size        = r2.compressed_size
    /\ r1.uncompressed_size      = r2.uncompressed_size
    /\ r1.compression_method     = r2.compression_method
    /\ r1.timestamp              = r2.timestamp
    /\ r1.sha1                   = r2.sha1
    /\ r1.compression_blocks     = r2.compression_blocks
    /\ r1.encrypted              = r2.encrypted
    /\ r1.compression_block_size = r2.compression_block_size

(***************************************************************************)
(* Record decoders: {ok, rec, s}; ok is FALSE where struct.unpack raises   *)
(* because the stream gave fewer bytes than the format needs.              *)
(***************************************************************************)
read_record_v1(s, filename) ==
    LET Decoded(b) ==
            IF Len(b) < 56 THEN [ok |-> FALSE, rec |-> NoRecord, s |-> s]
            ELSE [ok  |-> TRUE,
                  rec |-> RecordV1(filename, UnLE(SubSeq(b, 1, 8)), UnLE(SubSeq(b, 9, 16)),
                                   UnLE(SubSeq(b, 17, 24)), UnLE(SubSeq(b, 25, 28)),
                                   UnLE(SubSeq(b, 29, 36)), SubSeq(b, 37, 56)),
                  s   |-> advance(s, 56)]
    IN  Decoded(readbytes(s, 56))

read_record_v2(s, filename) ==
    LET Decoded(b) ==
            IF Len(b) < 48 THEN [ok |-> FALSE, rec |-> NoRecord, s |-> s]
            ELSE [ok  |-> TRUE,
                  rec |-> RecordV2(filename, UnLE(SubSeq(b, 1, 8)), UnLE(SubSeq(b, 9, 16)),
                                   UnLE(SubSeq(b, 17, 24)), UnLE(SubSeq(b, 25, 28)),
                                   SubSeq(b, 29, 48)),
                  s   |-> advance(s, 48)]
    IN  Decoded(readbytes(s, 48))

\* the block table and the trailing (encrypted, compression_block_size) of a
\* v3/v7 header, read after the 48-byte prefix: {ok, blocks, encrypted, cbs, s}
read_v3_tail(s, compression_method) ==
    LET Tail5(blocks, s2, tb) ==
            IF Len(tb) < 5
            THEN [ok |-> FALSE, blocks |-> None, encrypted |-> FALSE, cbs |-> 0, s |-> s]
            ELSE [ok |-> TRUE, blocks |-> blocks, encrypted |-> tb[1] # 0,
                  cbs |-> UnLE(SubSeq(tb, 2, 5)), s |-> advance(s2, 5)]
        Table(count, s1, bb) ==
            IF Len(bb) < 16 * count
            THEN [ok |-> FALSE, blocks |-> None, encrypted |-> FALSE, cbs |-> 0, s |-> s]
            ELSE Tail5(Some([i \in 1..count |->
                               <<UnLE(SubSeq(bb, 16 * i - 15, 16 * i - 8)),
                                 UnLE(SubSeq(bb, 16 * i - 7, 16 * i))>>]),
                       advance(s1, 16 * count), readbytes(advance(s1, 16 * count), 5))
        Count(cb) ==
            IF Len(cb) < 4
            THEN [ok |-> FALSE, blocks |-> None, encrypted |-> FALSE, cbs |-> 0, s |-> s]
            ELSE Table(UnLE(cb), advance(s, 4), readbytes(advance(s, 4), 16 * UnLE(cb)))
    IN  IF compression_method # COMPR_NONE THEN Count(readbytes(s, 4))
        ELSE Tail5(None, s, readbytes(s, 5))

read_record_v3(s, filename) ==
    LET Decoded(b, t) ==
            IF ~t.ok THEN [ok |-> FALSE, rec |-> NoRecord, s |-> s]
            ELSE [ok  |-> TRUE,
                  rec |-> RecordV3(filename, UnLE(SubSeq(b, 1, 8)),
                                   UnLE(SubSeq(b, 9, 16)), UnLE(SubSeq(b, 17, 24)),
                                   UnLE(SubSeq(b, 25, 28)), SubSeq(b, 29, 48),
                                   t.blocks, t.encrypted, t.cbs),
                  s   |-> t.s]
        Prefix(b) ==
            IF Len(b) < 48 THEN [ok |-> FALSE, rec |-> NoRecord, s |-> s]
            ELSE Decoded(b, read_v3_tail(advance(s, 48), UnLE(SubSeq(b, 25, 28))))
    IN  Prefix(readbytes(s, 48))

read_record_v4(s, filename) == read_record_v3(s, filename)

read_record_v7(s, filename) ==
    LET AsV7(r) == [r EXCEPT !.rec = [r.rec EXCEPT !.cls = IF r.ok THEN "V7" ELSE @]]
    IN  AsV7(read_record_v3(s, filename))

\* the decoder read_index and check_integrity pick for a version
read_record(version, s, filename) ==
    CASE version = 1 -> read_record_v1(s, filename)
      [] version = 2 -> read_record_v2(s, filename)
      [] version = 3 -> read_record_v3(s, filename)
      [] version = 4 -> read_record_v4(s, filename)
      [] OTHER       -> read_record_v7(s, filename)

(***************************************************************************)
(* Content writers.  fh is the source file's content, read from its start. *)
(* Results carry err: "" on success, else the exception raised.            *)
(***************************************************************************)
RECURSIVE write_data_loop(_, _, _, _, _)
write_data_loop(s, content, fpos, bytes_left, h) ==
    LET Chunk(want, data) ==
            IF Len(data) < want THEN [err |-> "IOError", s |-> s, h |-> h]
            ELSE write_data_loop(write(s, data), content, fpos + want,
                                 bytes_left - want, HashUpdate(h, data))
    IN  IF bytes_left <= 0 THEN [err |-> "", s |-> s, h |-> h]
        ELSE IF bytes_left >= DEFAULT_BUFFER_SIZE
        THEN Chunk(DEFAULT_BUFFER_SIZE,
                   SubSeq(content, fpos + 1, Min(fpos + DEFAULT_BUFFER_SIZE, Len(content))))
        ELSE Chunk(bytes_left,
                   SubSeq(content, fpos + 1, Min(fpos + bytes_left, Len(content))))

write_data(s, content, size, cm, encrypted, cbs) ==
    LET Done(r) == [err |-> r.err, s |-> r.s, compressed_size |-> size, sha1 |-> Digest(r.h)]
    IN  IF cm # COMPR_NONE
        THEN [err |-> "NotImplementedError", s |-> s, compressed_size |-> 0, sha1 |-> <<>>]
        ELSE IF encrypted
        THEN [err |-> "NotImplementedError", s |-> s, compressed_size |-> 0, sha1 |-> <<>>]
        ELSE Done(write_data_loop(s, content, 0, size, HashInit))

\* a variant of BlockCount that rounds down
BlockCountFloor(size, cbs) == size \div cbs

\* math.ceil(size / compression_block_size)
BlockCount(size, cbs) == (size + cbs - 1) \div cbs

\* a variant of the compression loop that feeds the hasher the bytes read
\* from the source file instead of the compressed block
RECURSIVE write_zlib_loop_plain(_, _, _)
write_zlib_loop_plain(st, content, buf_size) ==
    LET Block(want, raw, data) ==
            IF Len(raw) < want THEN [st EXCEPT !.err = "IOError"]
            ELSE write_zlib_loop_plain(
                   [err |-> "", s |-> write(st.s, data), fpos |-> st.fpos + want,
                    left |-> st.left - want, h |-> HashUpdate(st.h, raw),
                    cur |-> st.cur + Len(data), csize |-> st.csize + Len(data),
                    blocks |-> Append(st.blocks, <<st.cur, st.cur + Len(data)>>)],
                   content, buf_size)
        Raw(want, raw) == Block(want, raw, zlib_compress(raw))
        Want(want) == Raw(want, SubSeq(content, st.fpos + 1,
                                       Min(st.fpos + want, Len(content))))
    IN  IF st.left <= 0 THEN [st EXCEPT !.err = ""]
        ELSE Want(IF st.left >= buf_size THEN buf_size ELSE st.left)

\* the compression loop: st = {s, fpos, left, h, cur, csize, blocks}
RECURSIVE write_zlib_loop(_, _, _)
write_zlib_loop(st, content, buf_size) ==
    LET Block(want, raw, data) ==
            IF Len(raw) < want THEN [st EXCEPT !.err = "IOError"]
            ELSE write_zlib_loop(
                   [err |-> "", s |-> write(st.s, data), fpos |-> st.fpos + want,
                    left |-> st.left - want, h |-> HashUpdate(st.h, data),
                    cur |-> st.cur + Len(data), csize |-> st.csize + Len(data),
                    blocks |-> Append(st.blocks, <<st.cur, st.cur + Len(data)>>)],
                   content, buf_size)
        Raw(want, raw) == Block(want, raw, zlib_compress(raw))
        Want(want) == Raw(want, SubSeq(content, st.fpos + 1,
                                       Min(st.fpos + want, Len(content))))
    IN  IF st.left <= 0 THEN [st EXCEPT !.err = ""]
        ELSE Want(IF st.left >= buf_size THEN buf_size ELSE st.left)

\* a variant of BlockTable that stores every block as (end, start)
BlockTableSwapped(blocks) == Flatten([i \in 1..Len(blocks) |-> LE(blocks[i][2], 8) \o LE(blocks[i][1], 8)])

BlockTable(blocks) == Flatten([i \in 1..Len(blocks) |-> LE(blocks[i][1], 8) \o LE(blocks[i][2], 8)])

write_data_zlib(s, content, size, cm, encrypted, cbs) ==
    LET Done(block_count, r) ==
            IF r.err # ""
            THEN [err |-> r.err, s |-> r.s, compressed_size |-> 0,
                  sha1 |-> <<>>, block_count |-> 0, blocks |-> <<>>]
            ELSE [err |-> "",
                  s |-> seek(write(seek(r.s, s.pos + 4), BlockTable(r.blocks)), r.s.pos),
                  compressed_size |-> r.csize, sha1 |-> Digest(r.h),
                  block_count |-> block_count, blocks |-> r.blocks]
        Start(block_count, s1) ==
            Done(block_count,
                 write_zlib_loop(
                   [err |-> "",
                    s |-> write(seek(s1, s1.pos + block_count * 8 * 2),
                                LE(0, 1) \o LE(cbs, 4)),
                    fpos |-> 0, left |-> size, h |-> HashInit,
                    cur |-> s.pos + 4 + block_count * 8 * 2 + 5, csize |-> 0,
                    blocks |-> <<>>], content, cbs))
        Count(block_count) == Start(block_count, write(s, LE(block_count, 4)))
    IN  IF encrypted
        THEN [err |-> "NotImplementedError", s |-> s, compressed_size |-> 0,
              sha1 |-> <<>>, block_count |-> 0, blocks |-> <<>>]
        ELSE Count(BlockCount(size, cbs))

(***************************************************************************)
(* Record writers: write the header and the content of file `name` at the  *)
(* cursor and return the header copy for the index: {err, s, bytes}.       *)
(***************************************************************************)
\* a variant of PatchHeader that leaves the checksum placeholder of the
\* header as it is
PatchSizeOnly(s, record_offset, compressed_size, sha1_at, sha1) ==
    seek(write(seek(s, record_offset + 8), LE(compressed_size, 8)), s.pos)

\* seek back, overwrite compressed size and checksum, restore the cursor
PatchHeader(s, record_offset, compressed_size, sha1_at, sha1) ==
    seek(write(seek(write(seek(s, record_offset + 8), LE(compressed_size, 8)),
                    record_offset + sha1_at), sha1),
         s.pos)

write_record_v1(s, name, cm, encrypted, cbs) ==
    LET Done(size, d) ==
            IF d.err # "" THEN [err |-> d.err, s |-> d.s, bytes |-> <<>>]
            ELSE [err   |-> "",
                  s     |-> PatchHeader(d.s, s.pos, d.compressed_size, 36, d.sha1),
                  bytes |-> LE(s.pos, 8) \o LE(d.compressed_size, 8)
                            \o LE(size, 8) \o LE(cm, 4) \o LE(FsMtime(name), 8) \o d.sha1]
        Sized(size) ==
            Done(size, write_data(write(s, Zeros(16) \o LE(size, 8) \o LE(cm, 4)
                                           \o LE(FsMtime(name), 8) \o Zeros(20)),
                                  FsContent(name), size, cm, encrypted, cbs))
    IN  IF encrypted THEN [err |-> "ValueError", s |-> s, bytes |-> <<>>]
        ELSE Sized(Len(FsContent(name)))

write_record_v2(s, name, cm, encrypted, cbs) ==
    LET Done(size, d) ==
            IF d.err # "" THEN [err |-> d.err, s |-> d.s, bytes |-> <<>>]
            ELSE [err   |-> "",
                  s     |-> PatchHeader(d.s, s.pos, d.compressed_size, 28, d.sha1),
                  bytes |-> LE(s.pos, 8) \o LE(d.compressed_size, 8)
                            \o LE(size, 8) \o LE(cm, 4) \o d.sha1]
        Sized(size) ==
            Done(size, write_data(write(s, Zeros(16) \o LE(size, 8) \o LE(cm, 4)
                                           \o Zeros(20)),
                                  FsContent(name), size, cm, encrypted, cbs))
    IN  IF encrypted THEN [err |-> "ValueError", s |-> s, bytes |-> <<>>]
        ELSE Sized(Len(FsContent(name)))

write_record_v3(s, name, cm, encrypted, cbs0) ==
    LET DoneZlib(size, enc, d) ==
            IF d.err # "" THEN [err |-> d.err, s |-> d.s, bytes |-> <<>>]
            ELSE [err   |-> "",
                  s     |-> PatchHeader(d.s, s.pos, d.compressed_size, 28, d.sha1),
                  bytes |-> LE(s.pos, 8) \o LE(d.compressed_size, 8)
                            \o LE(size, 8) \o LE(cm, 4) \o d.sha1
                            \o LE(d.block_count, 4) \o BlockTable(d.blocks) \o enc]
        Done(size, enc, d) ==
            IF d.err # "" THEN [err |-> d.err, s |-> d.s, bytes |-> <<>>]
            ELSE [err   |-> "",
                  s     |-> PatchHeader(d.s, s.pos, d.compressed_size, 28, d.sha1),
                  bytes |-> LE(s.pos, 8) \o LE(d.compressed_size, 8)
                            \o LE(size, 8) \o LE(cm, 4) \o d.sha1 \o enc]
        Head48(size, cbs, enc, s1) ==
            IF cm = COMPR_ZLIB
            THEN DoneZlib(size, enc,
                          write_data_zlib(s1, FsContent(name), size, cm, encrypted, cbs))
            ELSE Done(size, enc,
                      write_data(write(s1, enc), FsContent(name), size, cm, encrypted, cbs))
        Sized(size, cbs) ==
            Head48(size, cbs, LE(IF encrypted THEN 1 ELSE 0, 1) \o LE(cbs, 4),
                   write(s, Zeros(16) \o LE(size, 8) \o LE(cm, 4) \o Zeros(20)))
    IN  IF cm # COMPR_NONE /\ cm # COMPR_ZLIB
        THEN [err |-> "NotImplementedError", s |-> s, bytes |-> <<>>]
        ELSE Sized(Len(FsContent(name)),
                   IF cbs0 = 0 /\ cm = COMPR_ZLIB THEN 65536 ELSE cbs0)

\* the writer pack and update pick for a version (1, 2 or 3)
write_record(version, s, name, cm, encrypted, cbs) ==
    CASE version = 1 -> write_record_v1(s, name, cm, encrypted, cbs)
      [] version = 2 -> write_record_v2(s, name, cm, encrypted, cbs)
      [] OTHER       -> write_record_v3(s, name, cm, encrypted, cbs)

(***************************************************************************)
(* list.sort: a stable insertion sort under a strict order.                *)
(***************************************************************************)
\* the orders the program sorts by: file names; records by filename; records
\* by (compressed_size, filename), reversed
KeyLess(mode, x, y) ==
    CASE mode = "name"     -> StrLess(x, y)
      [] mode = "filename" -> StrLess(x.filename, y.filename)
      [] OTHER             -> \/ y.compressed_size < x.compressed_size
                              \/ /\ y.compressed_size = x.compressed_size
                                 /\ StrLess(y.filename, x.filename)

RECURSIVE InsertSorted(_, _, _)
InsertSorted(x, s, mode) ==
    IF s = <<>> THEN <<x>>
    ELSE IF KeyLess(mode, x, Head(s)) THEN <<x>> \o s
    ELSE <<Head(s)>> \o InsertSorted(x, Tail(s), mode)

RECURSIVE SortBy(_, _)
SortBy(s, mode) ==
    IF s = <<>> THEN <<>>
    ELSE InsertSorted(Last(s), SortBy(SubSeq(s, 1, Len(s) - 1), mode), mode)

(***************************************************************************)
(* Archive index: serialize and parse.                                     *)
(***************************************************************************)
\* 0x5A6F12E1, little-endian
MagicBytes == <<225, 18, 111, 90>>

\* records: a sequence of <<filename, header bytes>>
write_index(s, version, mount_point, records) ==
    LET Serialized(idx_header, entries) ==
            write(write(write(s, idx_header), entries),
                  MagicBytes \o LE(version, 4) \o LE(s.pos, 8)
                  \o LE(Len(idx_header) + Len(entries), 8)
                  \o Digest(HashUpdate(HashUpdate(HashInit, idx_header), entries)))
    IN  Serialized(pack_path(mount_point) \o LE(Len(records), 4),
                   Flatten([i \in 1..Len(records) |->
                               pack_path(records[i][1]) \o records[i][2]]))

Pak(version, idx_offset, idx_size, footer_offset, idx_sha1, mount_point, records) ==
    [version |-> version, index_offset |-> idx_offset, index_size |-> idx_size,
     footer_offset |-> footer_offset, index_sha1 |-> idx_sha1,
     mount_point |-> mount_point, records |-> records]

NoPak == Pak(0, 0, 0, 0, <<>>, <<>>, <<>>)

\* the entry loop of read_index: {ok, records, s}
RECURSIVE read_entries(_, _, _, _)
read_entries(s, version, left, acc) ==
    LET Entry(r) ==
            IF ~r.ok THEN [ok |-> FALSE, records |-> acc, s |-> s]
            ELSE read_entries(r.s, version, left - 1, Append(acc, r.rec))
        Named(p) ==
            IF ~p.ok THEN [ok |-> FALSE, records |-> acc, s |-> s]
            ELSE Entry(read_record(version, p.s, p.path))
    IN  IF left = 0 THEN [ok |-> TRUE, records |-> acc, s |-> s]
        ELSE Named(read_path(s))

\* a variant of illegal_index that accepts every index
illegal_index_never(idx_offset, idx_size, footer_offset) == FALSE

\* the index named by the footer does not end before the footer
illegal_index(idx_offset, idx_size, footer_offset) == idx_offset + idx_size > footer_offset

\* read_index(stream, check_integrity=False, ignore_magic, force_version):
\* {err, pak, s}; force_version is None or Some(v)
read_index(s0, ignore_magic, force_version) ==
    LET Failed(err, s) == [err |-> err, pak |-> NoPak, s |-> s]
        Entries(footer, version, mp, e) ==
            IF ~e.ok THEN Failed("struct.error", e.s)
            ELSE IF e.s.pos > Len(s0.f) - 44
            THEN Failed("ValueError: index bleeds into footer", e.s)
            ELSE [err |-> "",
                  pak |-> Pak(version, UnLE(SubSeq(footer, 9, 16)),
                              UnLE(SubSeq(footer, 17, 24)), Len(s0.f) - 44,
                              SubSeq(footer, 25, 44), mp.path, e.records),
                  s   |-> e.s]
        Mounted(footer, version, mp, cb) ==
            IF ~mp.ok \/ Len(cb) < 4 THEN Failed("struct.error", mp.s)
            ELSE Entries(footer, version, mp,
                         read_entries(advance(mp.s, 4), version, UnLE(cb), <<>>))
        Index(footer, version, mp) == Mounted(footer, version, mp, readbytes(mp.s, 4))
        Footer(footer, version) ==
            IF ~ignore_magic /\ SubSeq(footer, 1, 4) # MagicBytes
            THEN Failed("ValueError: illegal file magic", seek(s0, Len(s0.f)))
            ELSE IF version \notin {1, 2, 3, 4, 7}
            THEN Failed("ValueError: unsupported version", seek(s0, Len(s0.f)))
            ELSE IF illegal_index(UnLE(SubSeq(footer, 9, 16)), UnLE(SubSeq(footer, 17, 24)),
                                  Len(s0.f) - 44)
            THEN Failed("ValueError: illegal index offset/size", seek(s0, Len(s0.f)))
            ELSE Index(footer, version,
                       read_path(seek(s0, UnLE(SubSeq(footer, 9, 16)))))
        Read44(footer) ==
            Footer(footer, IF force_version # None THEN force_version[1]
                           ELSE UnLE(SubSeq(footer, 5, 8)))
    IN  \* seek(-44, 2) on a shorter file raises OSError
        IF Len(s0.f) < 44 THEN Failed("OSError", s0)
        ELSE Read44(SubSeq(s0.f, Len(s0.f) - 43, Len(s0.f)))

(***************************************************************************)
(* pack                                                                    *)
(***************************************************************************)
\* the record loop of pack: {err, s, records}
RECURSIVE pack_files(_, _, _, _, _, _, _)
pack_files(s, files, version, cm, encrypted, cbs, acc) ==
    LET Written(w) ==
            IF w.err # "" THEN [err |-> w.err, s |-> w.s, records |-> acc]
            ELSE pack_files(w.s, Tail(files), version, cm, encrypted, cbs,
                            Append(acc, <<Head(files), w.bytes>>))
    IN  IF files = <<>> THEN [err |-> "", s |-> s, records |-> acc]
        ELSE IF ~os_path_exists(Head(files))
        THEN [err |-> "FileNotFoundError", s |-> s, records |-> acc]
        ELSE Written(write_record(version, s, Head(files), cm, encrypted, cbs))

\* pack(stream, files_or_dirs, mount_point, version, ...): {err, s}
pack(s, files_or_dirs, mount_point, version, cm, encrypted, cbs) ==
    LET Packed(r) ==
            IF r.err # "" THEN [err |-> r.err, s |-> r.s]
            ELSE [err |-> "", s |-> write_index(r.s, version, mount_point, r.records)]
    IN  IF version \notin {1, 2, 3} THEN [err |-> "ValueError", s |-> s]
        ELSE Packed(pack_files(s, SortBy(expand(files_or_dirs), "name"), version, cm,
                               encrypted, cbs, <<>>))

(***************************************************************************)
(* The directory tree update builds: every Dir's children form an          *)
(* OrderedDict keyed by the encoded (bytes) name.  The tree is kept as the *)
(* sequence of its nodes in creation order, each with the path of its      *)
(* parent Dir; the children of one Dir, taken in that order, are its       *)
(* OrderedDict's items.                                                    *)
(***************************************************************************)
\* a str and its encoding: a bytes object never equals a str
Str(v)   == <<"str", v>>
Bytes(v) == <<"bytes", v>>
encode(s) == Bytes(s[2])

Node(parent, key, isdir, rec) ==
    [parent |-> parent, key |-> key, isdir |-> isdir, rec |-> rec]

\* filename.split(os.path.sep)
RECURSIVE SplitFrom(_, _, _)
SplitFrom(name, i, cur) ==
    IF i > Len(name) THEN <<cur>>
    ELSE IF name[i] = SEP THEN <<cur>> \o SplitFrom(name, i + 1, <<>>)
    ELSE SplitFrom(name, i + 1, Append(cur, name[i]))

split(name) == SplitFrom(name, 1, <<>>)

IsPrefix(p, q) == Len(p) <= Len(q) /\ SubSeq(q, 1, Len(p)) = p

\* the position of children[key] of the Dir at `parent`, 0 for KeyError
ChildIndex(tree, parent, key) ==
    LET hits == {i \in 1..Len(tree) : tree[i].parent = parent /\ tree[i].key = key}
    IN  IF hits = {} THEN 0 ELSE CHOOSE i \in hits : TRUE

\* `key in parent.children`
InChildren(tree, parent, key) == ChildIndex(tree, parent, key) # 0

\* the nodes below the child `key` of `parent`, which go with it
Below(n, parent, key) == IsPrefix(Append(parent, key[2]), n.parent)

\* the tree without the nodes below the child `key` of `parent`, and
\* without that child too if `itself`
SelectNodes(tree, parent, key, itself) ==
    LET keep(n) == ~(itself /\ n.parent = parent /\ n.key = key) /\ ~Below(n, parent, key)
        RECURSIVE sel(_)
        sel(i) == IF i > Len(tree) THEN <<>>
                  ELSE (IF keep(tree[i]) THEN <<tree[i]>> ELSE <<>>) \o sel(i + 1)
    IN  sel(1)

\* parent.children[key] = node: a present key keeps its place in the order
SetChild(tree, parent, key, isdir, rec) ==
    LET At(i) ==
            IF i = 0 THEN Append(tree, Node(parent, key, isdir, rec))
            ELSE IF tree[i].isdir
            THEN SelectNodes([tree EXCEPT ![i] = Node(parent, key, isdir, rec)],
                             parent, key, FALSE)
            ELSE [tree EXCEPT ![i] = Node(parent, key, isdir, rec)]
    IN  At(ChildIndex(tree, parent, key))

\* del parent.children[key]
DelChild(tree, parent, key) == SelectNodes(tree, parent, key, TRUE)

\* the walk down the directory components, creating missing Dirs:
\* {ok, tree, parent}; ok is FALSE when a component is not a Dir
RECURSIVE descend(_, _, _)
descend(tree, parent, comps) ==
    LET Entry(key, i) ==
            IF i # 0 /\ ~tree[i].isdir
            THEN [ok |-> FALSE, tree |-> tree, parent |-> parent]
            ELSE descend(IF i = 0 THEN Append(tree, Node(parent, key, TRUE, NoRecord))
                         ELSE tree,
                         Append(parent, Head(comps)), Tail(comps))
        Comp(key) == Entry(key, ChildIndex(tree, parent, key))
    IN  IF comps = <<>> THEN [ok |-> TRUE, tree |-> tree, parent |-> parent]
        ELSE Comp(encode(Str(Head(comps))))

\* Dir.allrecords of the Dir at `parent`: depth first, children in order
RECURSIVE allrecords(_, _, _)
allrecords(tree, parent, i) ==
    IF i > Len(tree) THEN <<>>
    ELSE (IF tree[i].parent # parent THEN <<>>
          ELSE IF tree[i].isdir
               THEN allrecords(tree, Append(parent, tree[i].key[2]), 1)
               ELSE <<tree[i].rec>>)
         \o allrecords(tree, parent, i + 1)

\* build directory tree of existing files: {err, tree}
RECURSIVE rebuild(_, _)
rebuild(tree, records) ==
    LET Found(d, name) ==
            IF ~d.ok THEN [err |-> "ValueError: name conflict in archive", tree |-> d.tree]
            ELSE IF InChildren(d.tree, d.parent, name)
            THEN [err |-> "ValueError: doubled name in archive", tree |-> d.tree]
            ELSE rebuild(SetChild(d.tree, d.parent, encode(name), FALSE, Head(records)),
                         Tail(records))
        Path(path) ==
            Found(descend(tree, <<>>, SubSeq(path, 1, Len(path) - 1)), Str(Last(path)))
    IN  IF records = <<>> THEN [err |-> "", tree |-> tree]
        ELSE Path(split(Head(records).filename))

\* find files to remove
RECURSIVE remove_files(_, _)
remove_files(tree, remove) ==
    LET Found(d, name) ==
            IF ~d.ok THEN [err |-> "ValueError: file not in archive", tree |-> d.tree]
            ELSE IF ~InChildren(d.tree, d.parent, name)
            THEN [err |-> "ValueError: file not in archive", tree |-> d.tree]
            ELSE remove_files(DelChild(d.tree, d.parent, encode(name)), Tail(remove))
        Path(path) ==
            Found(descend(tree, <<>>, SubSeq(path, 1, Len(path) - 1)), Str(Last(path)))
    IN  IF remove = <<>> THEN [err |-> "", tree |-> tree]
        ELSE Path(split(Head(remove)))

make_record(version, filename) ==
    LET Sized(size) ==
            CASE version = 1 ->
                   RecordV1(filename, -1, size, size, COMPR_NONE, FsMtime(filename), <<>>)
              [] version = 2 -> RecordV2(filename, -1, size, size, COMPR_NONE, <<>>)
              [] OTHER ->
                   RecordV3(filename, -1, size, size, COMPR_NONE, <<>>, None, FALSE, 0)
    IN  Sized(Len(FsContent(filename)))

\* find files to insert
RECURSIVE insert_files(_, _, _)
insert_files(tree, version, files) ==
    LET Found(d, name) ==
            IF ~d.ok THEN [err |-> "ValueError: name conflict in archive", tree |-> d.tree]
            ELSE IF InChildren(d.tree, d.parent, name)
            THEN [err |-> "ValueError: doubled name in archive", tree |-> d.tree]
            ELSE IF ~os_path_exists(Head(files))
            THEN [err |-> "FileNotFoundError", tree |-> d.tree]
            ELSE insert_files(SetChild(d.tree, d.parent, encode(name), FALSE,
                                       make_record(version, Head(files))),
                              version, Tail(files))
        Path(path) ==
            Found(descend(tree, <<>>, SubSeq(path, 1, Len(path) - 1)), Str(Last(path)))
    IN  IF files = <<>> THEN [err |-> "", tree |-> tree]
        ELSE Path(split(Head(files)))

(***************************************************************************)
(* update: the plan.  An allocation is [offset, record].                   *)
(***************************************************************************)
Alloc(offset, record) == [offset |-> offset, record |-> record]

RemoveAt(s, i) == SubSeq(s, 1, i - 1) \o SubSeq(s, i + 1, Len(s))

\* the while loop that fills the hole before an existing record with the
\* new records that fit: {new_records, arch_size, allocations}
\* a hole filler that places every candidate without testing that it fits
RECURSIVE fill_hole_unfitted(_, _, _, _, _)
fill_hole_unfitted(i, new_records, arch_size, allocations, offset) ==
    IF ~(i <= Len(new_records) /\ arch_size < offset)
    THEN [new_records |-> new_records, arch_size |-> arch_size,
          allocations |-> allocations]
    ELSE fill_hole_unfitted(i, RemoveAt(new_records, i),
                            arch_size + alloc_size(new_records[i]),
                            Append(allocations, Alloc(arch_size, new_records[i])),
                            offset)

RECURSIVE fill_hole(_, _, _, _, _)
fill_hole(i, new_records, arch_size, allocations, offset) ==
    IF ~(i <= Len(new_records) /\ arch_size < offset)
    THEN [new_records |-> new_records, arch_size |-> arch_size,
          allocations |-> allocations]
    ELSE IF arch_size + alloc_size(new_records[i]) <= offset
    THEN fill_hole(i, RemoveAt(new_records, i),
                   arch_size + alloc_size(new_records[i]),
                   Append(allocations, Alloc(arch_size, new_records[i])), offset)
    ELSE fill_hole(i + 1, new_records, arch_size, allocations, offset)

\* the loop over the existing records
RECURSIVE place_existing(_, _, _, _)
place_existing(existing_records, new_records, arch_size, allocations) ==
    LET Placed(record, h) ==
            place_existing(Tail(existing_records), h.new_records,
                           h.arch_size + alloc_size(record),
                           Append(h.allocations, Alloc(h.arch_size, record)))
        Anchor(record) ==
            Placed(record,
                   IF record.offset > arch_size
                   THEN fill_hole(1, new_records, arch_size, allocations, record.offset)
                   ELSE [new_records |-> new_records, arch_size |-> arch_size,
                         allocations |-> allocations])
    IN  IF existing_records = <<>>
        THEN [new_records |-> new_records, arch_size |-> arch_size,
              allocations |-> allocations]
        ELSE Anchor(Head(existing_records))

\* add remaining records at the end
RECURSIVE place_rest(_, _, _)
place_rest(new_records, arch_size, allocations) ==
    IF new_records = <<>> THEN [arch_size |-> arch_size, allocations |-> allocations]
    ELSE place_rest(Tail(new_records), arch_size + alloc_size(Head(new_records)),
                    Append(allocations, Alloc(arch_size, Head(new_records))))

SelectRecords(records, new) ==
    LET RECURSIVE sel(_)
        sel(i) == IF i > Len(records) THEN <<>>
                  ELSE (IF (records[i].offset = -1) = new THEN <<records[i]>> ELSE <<>>)
                       \o sel(i + 1)
    IN  sel(1)

\* build new allocations: {allocations, index_offset, footer_offset, arch_size}
plan(tree) ==
    LET Sized(r, total) ==
            [allocations   |-> r.allocations,
             index_offset  |-> r.arch_size,
             footer_offset |-> r.arch_size + total,
             arch_size     |-> r.arch_size + total + 44]
        Laid(r) ==
            Sized(r, SumSeq([i \in 1..Len(r.allocations) |->
                                index_size(r.allocations[i].record)]))
        Anchored(p) ==
            Laid(place_rest(SortBy(p.new_records, "filename"), p.arch_size, p.allocations))
        Partitioned(all) ==
            Anchored(place_existing(SelectRecords(all, FALSE),
                                    SortBy(SelectRecords(all, TRUE), "size reversed"),
                                    0, <<>>))
    IN  Partitioned(allrecords(tree, <<>>, 1))

(***************************************************************************)
(* update: the commit.                                                     *)
(***************************************************************************)
\* fshift(stream, src, dst, size): {err, s}
RECURSIVE fshift_loop(_, _, _, _, _)
fshift_loop(s, src, dst, size, buf) ==
    LET Copy(data) ==
            fshift_loop(write(seek(s, dst + size - DEFAULT_BUFFER_SIZE), data),
                        src, dst, size - DEFAULT_BUFFER_SIZE, data)
        Got(got) == Copy(got \o SubSeq(buf, Len(got) + 1, DEFAULT_BUFFER_SIZE))
    IN  IF size <= 0 THEN s
        ELSE IF size >= DEFAULT_BUFFER_SIZE
        THEN Got(readbytes(seek(s, src + size - DEFAULT_BUFFER_SIZE), DEFAULT_BUFFER_SIZE))
        ELSE write(seek(s, dst), readbytes(seek(s, src), size))

fshift(s, src, dst, size, asserts) ==
    IF asserts /\ ~(src < dst) THEN [err |-> "AssertionError", s |-> s]
    ELSE [err |-> "", s |-> fshift_loop(s, src, dst, size, Zeros(DEFAULT_BUFFER_SIZE))]

cbs_or_0(record) ==
    IF record.compression_block_size = None THEN 0
    ELSE record.compression_block_size[1]

\* the loop over reversed(allocations).  st = {err, s, filename,
\* record_bytes, index_records}; filename and record_bytes are the local
\* variables of update, None while unbound.
RECURSIVE commit_loop(_, _, _, _)
commit_loop(st, allocations, version, asserts) ==
    LET New(record, w) ==
            IF w.err # "" THEN [st EXCEPT !.err = w.err, !.s = w.s]
            ELSE commit_loop(
                   [err |-> "", s |-> w.s, filename |-> Some(record.filename),
                    record_bytes |-> Some(w.bytes),
                    index_records |-> Append(st.index_records,
                                             <<record.filename, w.bytes>>)],
                   Tail(allocations), version, asserts)
        Header(record, s1, rb) ==
            commit_loop(
              [err |-> "", s |-> advance(s1, header_size(record)),
               filename |-> st.filename, record_bytes |-> Some(rb),
               index_records |-> Append(st.index_records, <<st.filename[1], rb>>)],
              Tail(allocations), version, asserts)
        Shifted(record, offset, m) ==
            IF m.err # "" THEN [st EXCEPT !.err = m.err]
            ELSE Header(record, seek(m.s, offset),
                        readbytes(seek(m.s, offset), header_size(record)))
        Item(record, offset) ==
            IF record.offset = -1
            THEN New(record, write_record(version, st.s, record.filename,
                                          record.compression_method, record.encrypted,
                                          cbs_or_0(record)))
            ELSE IF offset # record.offset
            THEN IF asserts /\ ~(offset > record.offset)
                 THEN [st EXCEPT !.err = "AssertionError"]
                 ELSE IF st.filename = None
                 THEN [st EXCEPT !.err = "UnboundLocalError"]
                 ELSE Shifted(record, offset,
                              fshift(st.s, record.offset, offset, alloc_size(record),
                                     asserts))
            ELSE IF st.filename = None \/ st.record_bytes = None
            THEN [st EXCEPT !.err = "UnboundLocalError"]
            ELSE commit_loop(
                   [st EXCEPT !.index_records =
                       Append(st.index_records, <<st.filename[1], st.record_bytes[1]>>)],
                   Tail(allocations), version, asserts)
    IN  IF allocations = <<>> THEN st
        ELSE Item(Head(allocations).record, Head(allocations).offset)

(***************************************************************************)
(* update(stream, mount_point, insert, remove, ...).  The result names the *)
(* exception raised (err, "" for a normal return) and the step that raised *)
(* it, the file as the call left it, and the plan, for the properties      *)
(* below: {err, stage, f, allocations, index_offset, arch_size, end_pos}.  *)
(* `asserts` tells whether assert statements are compiled in (python -O    *)
(* strips them); `free` is the free space os.statvfs reports.              *)
(***************************************************************************)
UpdateResult(err, stage, f, pl, end_pos) ==
    [err |-> err, stage |-> stage, f |-> f, allocations |-> pl.allocations,
     index_offset |-> pl.index_offset, arch_size |-> pl.arch_size,
     end_pos |-> end_pos]

NoPlan == [allocations |-> <<>>, index_offset |-> 0, footer_offset |-> 0, arch_size |-> 0]

\* a variant of Rejected for an archive opened with truncation ("w+b"
\* instead of "r+b"): the error leaves an empty file behind
RejectedTruncated(err, stage, f) == UpdateResult(err, stage, <<>>, NoPlan, 0)

\* an error raised before the commit: nothing was written
Rejected(err, stage, f) == UpdateResult(err, stage, f, NoPlan, 0)

\* minimize chance of corrupting archive
filesystem_too_small(diff_size, free) ==
    diff_size > 0 /\ free - diff_size < DEFAULT_BUFFER_SIZE

\* the commit: the writes, the new index, the truncation
commit(s, f, pak, mount_point, pl, asserts) ==
    LET Indexed(w) ==
            UpdateResult("", "done",
                         IF pl.arch_size - Len(f) < 0 THEN truncate(w.f, pl.arch_size)
                         ELSE w.f,
                         pl, w.pos)
        Looped(c) ==
            IF c.err # "" THEN UpdateResult(c.err, "commit", c.s.f, pl, c.s.pos)
            ELSE Indexed(write_index(c.s, pak.version, mount_point, c.index_records))
    IN  Looped(commit_loop([err |-> "", s |-> s, filename |-> None,
                            record_bytes |-> None, index_records |-> <<>>],
                           Reverse(pl.allocations), pak.version, asserts))

\* the steps after read_index: tree, remove, insert, plan, admission, commit
update_parsed(f, ri, mount_point, insert, remove, asserts, free) ==
    LET Planned(pl) ==
            IF filesystem_too_small(pl.arch_size - Len(f), free)
            THEN UpdateResult("ValueError: filesystem not big enough", "admission", f, pl, 0)
            ELSE commit(ri.s, f, ri.pak, mount_point, pl, asserts)
        Inserted(t3) ==
            IF t3.err # "" THEN Rejected(t3.err, "insert", f)
            ELSE Planned(plan(t3.tree))
        Removed(t2) ==
            IF t2.err # "" THEN Rejected(t2.err, "remove", f)
            ELSE Inserted(insert_files(t2.tree, ri.pak.version, expand(insert)))
        Rebuilt(t1) ==
            IF t1.err # "" THEN Rejected(t1.err, "rebuild", f)
            ELSE Removed(remove_files(t1.tree, remove))
    IN  IF ri.pak.version \notin {1, 2, 3}
        THEN Rejected("ValueError: version not supported", "version", f)
        ELSE Rebuilt(rebuild(<<>>, ri.pak.records))

update(f, mount_point, insert, remove, cm, encrypted, ignore_magic, force_version, asserts, free) ==
    LET Parsed(ri) ==
            IF ri.err # "" THEN Rejected(ri.err, "read_index", f)
            ELSE update_parsed(f, ri, mount_point, insert, remove, asserts, free)
    IN  IF cm # COMPR_NONE THEN Rejected("NotImplementedError", "options", f)
        ELSE IF encrypted THEN Rejected("NotImplementedError", "options", f)
        ELSE Parsed(read_index(Stream(f, 0), ignore_magic, force_version))

(***************************************************************************)
(* Pak.check_integrity with a callback that records every report in a      *)
(* sink.  A report is <<ctx, kind>>: ctx is the filename of the record the *)
(* callback was given, IndexCtx for the index, None for no record.  The    *)
(* state is {err, hang, reports, buf}: err names an exception that ended   *)
(* the call, hang tells that a loop never ends, buf is the read buffer the *)
(* calls of check_data share.                                              *)
(***************************************************************************)
\* the str "<archive index>", as its characters
IndexCtx == <<<<60, 97, 114, 99, 104, 105, 118, 101, 32, 105, 110, 100, 101, 120, 62>>>>

\* stream.readinto(buf): the bytes read replace the head of the buffer
readinto(f, pos, buf) ==
    readbytes(Stream(f, pos), Len(buf))
    \o SubSeq(buf, Len(readbytes(Stream(f, pos), Len(buf))) + 1, Len(buf))

\* the while loop of check_data on c = {pos, size, buf, h, hang}
RECURSIVE check_data_loop(_, _)
check_data_loop(f, c) ==
    IF c.size <= 0 THEN c
    ELSE IF c.size >= DEFAULT_BUFFER_SIZE
    THEN \* readinto returns 0 at the end of the file: size stays as it is
         IF c.pos >= Len(f) THEN [c EXCEPT !.hang = TRUE]
         ELSE check_data_loop(f,
                [pos  |-> c.pos + Min(DEFAULT_BUFFER_SIZE, Len(f) - c.pos),
                 size |-> c.size - Min(DEFAULT_BUFFER_SIZE, Len(f) - c.pos),
                 buf  |-> readinto(f, c.pos, c.buf),
                 h    |-> HashUpdate(c.h, readinto(f, c.pos, c.buf)),
                 hang |-> FALSE])
    ELSE [c EXCEPT !.h = HashUpdate(c.h, readbytes(Stream(f, c.pos), c.size)),
                   !.size = 0]

\* a variant of check_data that compares nothing
check_data_skipped(st, f, ctx, offset, size, sha1, ignore_null_checksums) == st

check_data(st, f, ctx, offset, size, sha1, ignore_null_checksums) ==
    LET Hashed(c) ==
            IF c.hang THEN [st EXCEPT !.hang = TRUE]
            ELSE [st EXCEPT !.buf = c.buf,
                            !.reports = IF Digest(c.h) # sha1
                                        THEN Append(@, <<ctx, "checksum missmatch">>)
                                        ELSE @]
    IN  IF ignore_null_checksums /\ sha1 = NullSha1 THEN st
        ELSE Hashed(check_data_loop(f, [pos |-> offset, size |-> size, buf |-> st.buf,
                                        h |-> HashInit, hang |-> FALSE]))

\* stream.read(n): -1 reads to the end, a smaller n raises ValueError
read_n(f, pos, n) ==
    IF n = -1 THEN SubSeq(f, pos + 1, Len(f)) ELSE readbytes(Stream(f, pos), n)

\* the loop over r1.compression_blocks: {err, h}
RECURSIVE hash_blocks(_, _, _, _)
hash_blocks(f, base, blocks, h) ==
    IF blocks = <<>> THEN [err |-> "", h |-> h]
    ELSE LET block_size == Head(blocks)[2] - Head(blocks)[1] IN
         IF block_size < -1 THEN [err |-> "ValueError", h |-> h]
         ELSE hash_blocks(f, base, Tail(blocks),
                          HashUpdate(h, read_n(f, base + Head(blocks)[1], block_size)))

AddReport(reports, cond, ctx, kind) ==
    IF cond THEN Append(reports, <<ctx, kind>>) ELSE reports

\* the metadata tests of one record, in the order of the code
metadata_reports(reports, r1, r2, index_offset) ==
    AddReport(
      AddReport(
        AddReport(
          AddReport(
            AddReport(reports, r2.offset # 0, Some(r2.filename),
                      "data record offset field is not 0"),
            ~same_metadata(r1, r2), Some(r1.filename), "metadata missmatch"),
          r1.compression_method \notin COMPR_METHODS, Some(r1.filename),
          "unknown compression method"),
        r1.compression_method = COMPR_NONE /\ r1.compressed_size # r1.uncompressed_size,
        Some(r1.filename), "compressed size differes"),
      data_offset(r1) + r1.compressed_size > index_offset, None, "data bleeds into index")

\* the body of the loop over the records
check_record(st, f, version, r1, index_offset, ignore_null_checksums) ==
    LET Blocks(s1, hb) ==
            IF hb.err # "" THEN [s1 EXCEPT !.err = hb.err]
            ELSE [s1 EXCEPT !.reports = AddReport(@, Digest(hb.h) # r1.sha1,
                                                  Some(r1.filename), "checksum missmatch")]
        Content(s1) ==
            IF ignore_null_checksums /\ r1.sha1 = NullSha1 THEN s1
            ELSE IF r1.compression_blocks = None
            THEN check_data(s1, f, Some(r1.filename), data_offset(r1), r1.compressed_size,
                            r1.sha1, ignore_null_checksums)
            ELSE Blocks(s1, hash_blocks(f, base_offset(r1), r1.compression_blocks[1],
                                        HashInit))
        Header(rr) ==
            IF ~rr.ok THEN [st EXCEPT !.err = "struct.error"]
            ELSE Content([st EXCEPT !.reports =
                              metadata_reports(@, r1, rr.rec, index_offset)])
    IN  Header(read_record(version, Stream(f, r1.offset), r1.filename))

RECURSIVE check_records(_, _, _, _, _, _)
check_records(st, f, version, records, index_offset, ignore_null_checksums) ==
    IF records = <<>> \/ st.err # "" \/ st.hang THEN st
    ELSE check_records(check_record(st, f, version, Head(records), index_offset,
                                    ignore_null_checksums),
                       f, version, Tail(records), index_offset, ignore_null_checksums)

check_integrity(pak, f, ignore_null_checksums) ==
    LET st0 == [err |-> "", hang |-> FALSE, reports |-> <<>>,
                buf |-> Zeros(DEFAULT_BUFFER_SIZE)]
    IN  IF pak.version \notin {1, 2, 3, 4, 7}
        THEN [st0 EXCEPT !.err = "ValueError: unsupported version"]
        ELSE check_records(check_data(st0, f, IndexCtx, pak.index_offset, pak.index_size,
                                      pak.index_sha1, ignore_null_checksums),
                           f, pak.version, pak.records, pak.index_offset,
                           ignore_null_checksums)

(***************************************************************************)
(* Record.read(data, offset, size): random access into one record's        *)
(* content.  `data` is the whole archive (an mmap of the file).            *)
(***************************************************************************)
\* a Python slice seq[i:j] with i, j >= 0 or negative (counted from the end)
PySlice(seq, i, j) ==
    LET lo == IF i < 0 THEN Max(Len(seq) + i, 0) ELSE Min(i, Len(seq))
        hi == IF j < 0 THEN Max(Len(seq) + j, 0) ELSE Min(j, Len(seq))
    IN  SubSeq(seq, lo + 1, hi)

\* a variant of read_trim that takes every covering block whole
read_untrimmed(block_decompress, current_offset, offset, end_offset) == block_decompress

\* the part of one decompressed block that the window takes
read_trim(block_decompress, current_offset, offset, end_offset) ==
    IF current_offset >= offset
    THEN PySlice(block_decompress, 0, end_offset - current_offset)
    ELSE PySlice(block_decompress, offset - current_offset, end_offset - current_offset)

\* the loop over the covering blocks: {err, buffer}
RECURSIVE read_blocks(_, _, _, _, _, _, _)
read_blocks(data, base, blocks, current_offset, offset, end_offset, buffer) ==
    LET Decompressed(block_decompress) ==
            read_blocks(data, base, Tail(blocks),
                        current_offset + Len(block_decompress), offset, end_offset,
                        buffer \o read_trim(block_decompress, current_offset,
                                            offset, end_offset))
        Block(block_content) ==
            IF ~zlib_ok(block_content) THEN [err |-> "zlib.error", buffer |-> buffer]
            ELSE Decompressed(zlib_decompress(block_content))
    IN  IF blocks = <<>> THEN [err |-> "", buffer |-> buffer]
        ELSE Block(PySlice(data, base + Head(blocks)[1], base + Head(blocks)[2]))

\* {err, buffer}
read(r, data, offset, size) ==
    IF r.encrypted THEN [err |-> "NotImplementedError", buffer |-> <<>>]
    ELSE IF r.compression_method = COMPR_NONE
    THEN IF offset >= r.uncompressed_size THEN [err |-> "", buffer |-> <<>>]
         ELSE LET i == data_offset(r) + offset
                  j == i + Min(r.uncompressed_size - offset, size)
              IN  [err |-> "", buffer |-> PySlice(data, i, j)]
    ELSE IF r.compression_method = COMPR_ZLIB
    THEN IF r.compression_blocks = None \/ cbs_or_0(r) = 0
         THEN [err |-> "AssertionError", buffer |-> <<>>]
         ELSE LET compression_block_size == cbs_or_0(r)
                  start_block_index == offset \div compression_block_size
                  end_block_index   == (offset + size) \div compression_block_size
              IN  read_blocks(data, base_offset(r),
                              PySlice(r.compression_blocks[1], start_block_index,
                                      end_block_index + 1),
                              compression_block_size * start_block_index,
                              offset, offset + size, <<>>)
    ELSE [err |-> "NotImplementedError", buffer |-> <<>>]

(***************************************************************************)
(* Record.sendfile for a zlib record: the sequential decompression of all  *)
(* blocks, {err, out}.                                                     *)
(***************************************************************************)
RECURSIVE sendfile_blocks(_, _, _, _)
sendfile_blocks(f, base, blocks, out) ==
    LET Block(block_content) ==
            IF ~zlib_ok(block_content) THEN [err |-> "zlib.error", out |-> out]
            ELSE sendfile_blocks(f, base, Tail(blocks),
                                 out \o zlib_decompress(block_content))
    IN  IF blocks = <<>> THEN [err |-> "", out |-> out]
        ELSE IF Head(blocks)[2] - Head(blocks)[1] < -1
        THEN [err |-> "ValueError", out |-> out]
        ELSE Block(read_n(f, base + Head(blocks)[1], Head(blocks)[2] - Head(blocks)[1]))

\* Record.sendfile(outfile, infile) where os.sendfile copies the bytes: the
\* bytes written to outfile, {err, out}
sendfile(r, f) ==
    IF r.compression_method = COMPR_NONE
    THEN [err |-> "", out |-> read_n(f, data_offset(r), r.uncompressed_size)]
    ELSE IF r.compression_method = COMPR_ZLIB
    THEN IF r.encrypted THEN [err |-> "NotImplementedError", out |-> <<>>]
         ELSE IF r.compression_blocks = None THEN [err |-> "AssertionError", out |-> <<>>]
         ELSE sendfile_blocks(f, base_offset(r), r.compression_blocks[1], <<>>)
    ELSE [err |-> "NotImplementedError", out |-> <<>>]

(***************************************************************************)
(* Bulk transfer.  The destination is an io.BufferedWriter: `disk` is what  *)
(* was written through its file descriptor, `pending` what write() left in  *)
(* its buffer; closing it writes the pending bytes after those on disk.     *)
(***************************************************************************)
\* highlevel_sendfile(outfile, infile, offset, size): {err, disk, pending}
RECURSIVE highlevel_sendfile(_, _, _, _)
highlevel_sendfile(out, infile, offset, size) ==
    LET Chunk(data, n) ==
            IF Len(data) < n THEN [out EXCEPT !.err = "IOError"]
            ELSE highlevel_sendfile([out EXCEPT !.pending = out.pending \o data],
                                    infile, offset + n, size - n)
    IN  IF size <= 0 THEN out
        ELSE IF size >= DEFAULT_BUFFER_SIZE
        THEN Chunk(read_n(infile, offset, DEFAULT_BUFFER_SIZE), DEFAULT_BUFFER_SIZE)
        ELSE Chunk(read_n(infile, offset, size), size)

\* os_sendfile(outfile, infile, offset, size): without file descriptors the
\* buffered loop; with them one call of os.sendfile, which writes `sent`
\* bytes (at most size, at most what the source holds from offset) through
\* the descriptor and whose return value is dropped
os_sendfile(out, infile, offset, size, has_fileno, sent) ==
    IF ~has_fileno THEN highlevel_sendfile(out, infile, offset, size)
    ELSE IF size > 0
    THEN [out EXCEPT !.disk = out.disk \o read_n(infile, offset, Min(sent, size))]
    ELSE out

\* Record.sendfile(outfile, infile) through the transfer the module picks
\* (os_sendfile where os.sendfile exists): an uncompressed record by one
\* transfer of uncompressed_size bytes from data_offset, a zlib record by
\* outfile.write of every decompressed block
record_sendfile(r, out, infile, has_fileno, sent) ==
    LET Written(b) == [out EXCEPT !.err = b.err, !.pending = out.pending \o b.out]
    IN  IF r.compression_method = COMPR_NONE
        THEN os_sendfile(out, infile, data_offset(r), r.uncompressed_size, has_fileno, sent)
        ELSE Written(sendfile(r, infile))

(***************************************************************************)
(* FragInfo: the fragment map, a list of ranges <<start, end>> of a space   *)
(* of `size` positions.  Indices are those of the code (from 0).            *)
(***************************************************************************)
\* the while loop of add: the ranges from j on that the new range reaches;
\* {j, new_end}
RECURSIVE add_absorb(_, _, _)
add_absorb(frags, j, new_end) ==
    IF j < Len(frags) /\ frags[j + 1][1] <= new_end
    THEN IF frags[j + 1][2] > new_end
         THEN [j |-> j + 1, new_end |-> frags[j + 1][2]]
         ELSE add_absorb(frags, j + 1, new_end)
    ELSE [j |-> j, new_end |-> new_end]

\* frags[i:j] = [(new_start, new_end)]
add_replace(frags, i, new_start, m) ==
    SubSeq(frags, 1, i) \o <<<<new_start, m.new_end>>>> \o SubSeq(frags, m.j + 1, Len(frags))

\* the for loop of add, at index i
RECURSIVE add_scan(_, _, _, _)
add_scan(frags, i, new_start, new_end) ==
    LET Merge(ns) == add_replace(frags, i, ns, add_absorb(frags, i + 1, new_end))
        At(start, end) ==
            IF new_end < start
            THEN SubSeq(frags, 1, i) \o <<<<new_start, new_end>>>>
                 \o SubSeq(frags, i + 1, Len(frags))
            ELSE IF new_start <= start
            THEN IF new_end <= end THEN [frags EXCEPT ![i + 1] = <<new_start, end>>]
                 ELSE Merge(new_start)
            ELSE IF new_start <= end
            THEN Merge(IF new_end > end THEN start ELSE new_start)
            ELSE add_scan(frags, i + 1, new_start, new_end)
    IN  IF i >= Len(frags) THEN Append(frags, <<new_start, new_end>>)
        ELSE At(frags[i + 1][1], frags[i + 1][2])

\* FragInfo.add(new_start, new_end): {err, frags}
frag_add(size, frags, new_start, new_end) ==
    IF new_start >= new_end THEN [err |-> "", frags |-> frags]
    ELSE IF new_start >= size \/ new_end > size
    THEN [err |-> "IndexError", frags |-> frags]
    ELSE [err |-> "", frags |-> add_scan(frags, 0, new_start, new_end)]

\* the loop of invert from index i: the gaps before each range
RECURSIVE invert_scan(_, _, _, _)
invert_scan(size, frags, i, prev_end) ==
    IF i >= Len(frags)
    THEN (IF size > prev_end THEN <<<<prev_end, size>>>> ELSE <<>>)
    ELSE (IF frags[i + 1][1] > prev_end THEN <<<<prev_end, frags[i + 1][1]>>>> ELSE <<>>)
         \o invert_scan(size, frags, i + 1, frags[i + 1][2])

\* FragInfo.invert(): the ranges of the inverted map, of the same size
frag_invert(size, frags) == invert_scan(size, frags, 0, 0)

\* the loop of free from index i
RECURSIVE free_scan(_, _, _, _)
free_scan(size, frags, i, prev_end) ==
    IF i >= Len(frags) THEN size - prev_end
    ELSE (frags[i + 1][1] - prev_end) + free_scan(size, frags, i + 1, frags[i + 1][2])

\* FragInfo.free()
frag_free(size, frags) == free_scan(size, frags, 0, 0)

\* Pak.frag_info(): the map of the archive's size with the index, the
\* footer and every record added; {err, size, frags}
frag_info(pak) ==
    LET RECURSIVE records(_, _)
        records(m, k) ==
            LET Added(r) == IF r.err # "" THEN [m EXCEPT !.err = r.err]
                            ELSE records([m EXCEPT !.frags = r.frags], k + 1)
            IN  IF k > Len(pak.records) THEN m
                ELSE Added(frag_add(m.size, m.frags, pak.records[k].offset,
                                    data_offset(pak.records[k])
                                    + pak.records[k].compressed_size))
        Footer(m, r) == IF r.err # "" THEN [m EXCEPT !.err = r.err]
                        ELSE records([m EXCEPT !.frags = r.frags], 1)
        Index(m, r) ==
            IF r.err # "" THEN [m EXCEPT !.err = r.err]
            ELSE Footer(m, frag_add(m.size, r.frags, pak.footer_offset, m.size))
        Sized(m) == Index(m, frag_add(m.size, m.frags, pak.index_offset,
                                      pak.index_offset + pak.index_size))
    IN  Sized([err |-> "", size |-> pak.footer_offset + 44, frags |-> <<>>])

(***************************************************************************)
(* An archive as other tools write it: every stored checksum is twenty     *)
(* zero bytes ("null checksum"), in the record headers, in their index     *)
(* copies and in the footer.  It is the archive check_integrity's          *)
(* ignore_null_checksums is for.                                           *)
(***************************************************************************)
\* where the checksum sits in a record header
sha1_offset(version) == IF version = 1 THEN 36 ELSE 28

\* null the checksum of every index copy: the stream stands at an entry
RECURSIVE null_entries(_, _, _)
null_entries(s, version, left) ==
    LET Entry(p, r) ==
            null_entries(seek(write(seek(r.s, p.s.pos + sha1_offset(version)), NullSha1),
                              r.s.pos),
                         version, left - 1)
        Named(p) == Entry(p, read_record(version, p.s, p.path))
    IN  IF left = 0 THEN s ELSE Named(read_path(s))

\* null the checksum of every on-disk record header
RECURSIVE null_headers(_, _, _)
null_headers(s, version, records) ==
    IF records = <<>> THEN s
    ELSE null_headers(write(seek(s, Head(records).offset + sha1_offset(version)), NullSha1),
                      version, Tail(records))

\* the archive f with every checksum nulled
null_checksums(f) ==
    LET Headers(pak, s) ==
            write(seek(null_headers(s, pak.version, pak.records), Len(f) - 20), NullSha1).f
        Parsed(ri, mp) ==
            Headers(ri.pak, null_entries(advance(mp.s, 4), ri.pak.version,
                                         Len(ri.pak.records)))
        Index(ri) == Parsed(ri, read_path(Stream(f, ri.pak.index_offset)))
    IN  Index(read_index(Stream(f, 0), FALSE, None))

(***************************************************************************)
(* The state machine.  One archive file on disk; the operations of the     *)
(* engine act on it: pack (into a newly created file), update (in place),  *)
(* read_index, check_integrity with a recording sink, Record.read; and the *)
(* environment may damage one byte of a packed archive.                    *)
(***************************************************************************)
VARIABLES file, ops, origin, last, parsed, report, rd, damaged, frag, xfer

vars == <<file, ops, origin, last, parsed, report, rd, damaged, frag, xfer>>

\* how far past a record's content the windows of Record.read reach
MaxWindow == 6

MountPoint == <<109>>

\* the damaged byte changes by this amount (mod 256)
DamageDelta == 1

\* free space reported by os.statvfs: none, or plenty
FreeNone   == 0
FreePlenty == 100000

PackArg(files, version, cm, encrypted, cbs) ==
    [files |-> files, version |-> version, cm |-> cm, encrypted |-> encrypted, cbs |-> cbs]

\* the calls of pack the model makes
PackArgs ==
    {PackArg(fs, 2, COMPR_NONE, FALSE, 0) :
        fs \in {<<>>, <<NameA>>, <<NameA, NameB>>, <<NameB, NameD>>, <<NameA, NameA>>}}
    \cup {PackArg(<<NameA, NameB>>, v, COMPR_NONE, FALSE, 0) : v \in {1, 3}}
    \cup {PackArg(fs, 3, COMPR_ZLIB, FALSE, 2) : fs \in {<<NameB>>, <<NameA, NameB>>}}
    \cup {PackArg(<<NameA>>, 2, COMPR_ZLIB, FALSE, 0),
          PackArg(<<NameA>>, 4, COMPR_NONE, FALSE, 0),
          PackArg(<<NameE>>, 3, COMPR_NONE, FALSE, 0),
          PackArg(<<NameA>>, 3, COMPR_NONE, TRUE, 0),
          PackArg(<<>>, 3, COMPR_NONE, TRUE, 0)}

\* the packed archives that are also taken with their index in another order
ReorderedArgs == {PackArg(<<NameA, NameB>>, 2, COMPR_NONE, FALSE, 0)}

\* the packed archives that are also taken with their checksums nulled
NulledArgs ==
    {PackArg(<<NameA, NameB>>, 3, cm, FALSE, IF cm = COMPR_ZLIB THEN 2 ELSE 0) :
        cm \in {COMPR_NONE, COMPR_ZLIB}}

UpdateArg(insert, remove, cm, encrypted, free, asserts) ==
    [insert |-> insert, remove |-> remove, cm |-> cm, encrypted |-> encrypted,
     free |-> free, asserts |-> asserts]

\* the calls of update the model makes
UpdateArgs ==
    {UpdateArg(l[1], l[2], COMPR_NONE, FALSE, FreePlenty, TRUE) :
        l \in {<<<<>>, <<>>>>, <<<<NameA>>, <<>>>>, <<<<NameB>>, <<>>>>,
               <<<<NameD>>, <<>>>>, <<<<NameAX>>, <<>>>>, <<<<NameE>>, <<>>>>,
               <<<<>>, <<NameA>>>>, <<<<>>, <<NameE>>>>, <<<<>>, <<NameAX>>>>,
               <<<<NameA>>, <<NameA>>>>}}
    \cup {UpdateArg(<<n>>, <<>>, COMPR_NONE, FALSE, FreePlenty, FALSE) : n \in {NameA, NameB}}
    \cup {UpdateArg(<<NameB>>, <<>>, COMPR_NONE, FALSE, FreeNone, TRUE),
          UpdateArg(<<NameB>>, <<>>, COMPR_ZLIB, FALSE, FreePlenty, TRUE),
          UpdateArg(<<NameB>>, <<>>, COMPR_NONE, TRUE, FreePlenty, TRUE)}

NoOrigin == [valid |-> FALSE, arg |-> PackArg(<<>>, 0, 0, FALSE, 0), err |-> ""]

NoLast ==
    [op |-> "none", arg |-> UpdateArg(<<>>, <<>>, 0, FALSE, 0, TRUE), err |-> "",
     stage |-> "", before |-> <<>>, allocations |-> <<>>, index_offset |-> 0,
     arch_size |-> 0, end_pos |-> 0]

NoParsed == [valid |-> FALSE, err |-> "", pak |-> NoPak, clean |-> FALSE,
             force_version |-> None, pos |-> 0]

\* the versions an operator forces on the first load of an archive
ForcedVersions == {None, Some(3), Some(5)}

NoReport == [valid |-> FALSE, err |-> "", hang |-> FALSE, reports |-> <<>>,
             clean |-> FALSE, ignore_null_checksums |-> FALSE]

NoRead == [valid |-> FALSE, k |-> 0, offset |-> 0, size |-> 0, err |-> "", buffer |-> <<>>]

\* a fragment map of `size` positions, the ranges it holds, the ranges that
\* were added to it, and the outcome of the last call of add on it
NoFrag == [size |-> 0, frags |-> <<>>, added |-> <<>>, prev |-> <<>>, call |-> "none"]

\* a bulk transfer: the operation and its arguments, the outcome, the
\* destination (what the file descriptor holds and what the writer still
\* buffers) or the stream after it
NoXfer == [op |-> "none", args |-> <<>>, err |-> "", disk |-> <<>>, pending |-> <<>>]

Init ==
    /\ file = <<>>
    /\ ops = 0
    /\ origin = NoOrigin
    /\ last = NoLast
    /\ parsed = NoParsed
    /\ report = NoReport
    /\ rd = NoRead
    /\ damaged = 0
    /\ frag = NoFrag
    /\ xfer = NoXfer

\* PakWorker.pack_files: open(output_pak, "wb") and pack into it; the
\* archive is packed once
Pack(a) ==
    LET Packed(r) ==
            /\ file' = r.s.f
            /\ origin' = [valid |-> TRUE, arg |-> a, err |-> r.err]
            /\ last' = [NoLast EXCEPT !.op = "pack", !.err = r.err, !.before = file,
                                      !.end_pos = r.s.pos]
    IN  /\ ~origin.valid /\ last.op = "none"
        /\ Packed(pack(Stream(<<>>, 0), a.files, MountPoint, a.version, a.cm,
                       a.encrypted, a.cbs))
        /\ ops' = 0
        /\ parsed' = NoParsed
        /\ report' = NoReport
        /\ rd' = NoRead
        /\ damaged' = 0
        /\ UNCHANGED <<frag, xfer>>

\* update on the archive as it is on disk, while no operation has failed
Update(a) ==
    LET Updated(r) ==
            /\ file' = r.f
            /\ ops' = IF r.stage \in {"commit", "done"} THEN ops + 1 ELSE ops
            /\ last' = [op |-> "update", arg |-> a, err |-> r.err, stage |-> r.stage,
                        before |-> file, allocations |-> r.allocations,
                        index_offset |-> r.index_offset, arch_size |-> r.arch_size,
                        end_pos |-> r.end_pos]
    IN  /\ ops < MaxOps
        /\ last.op \in {"pack", "reordered", "update"} /\ last.err = ""
        /\ damaged = 0 /\ ~parsed.valid
        /\ Updated(update(file, MountPoint, a.insert, a.remove, a.cm, a.encrypted,
                          FALSE, None, a.asserts, a.free))
        /\ parsed' = NoParsed
        /\ report' = NoReport
        /\ rd' = NoRead
        /\ UNCHANGED <<origin, damaged, frag, xfer>>

\* PakWorker.load_pak: read_index on the archive, when it is first loaded
\* and again after it was damaged
ReadIndex(ignore_magic, force_version) ==
    LET Loaded(r) ==
            parsed' = [valid |-> TRUE, err |-> r.err, pak |-> r.pak, clean |-> damaged = 0,
                       force_version |-> force_version, pos |-> r.s.pos]
    IN  /\ ~parsed.valid \/ (damaged # 0 /\ parsed.clean /\ force_version = None)
        /\ report = NoReport /\ rd = NoRead
        /\ Loaded(read_index(Stream(file, 0), ignore_magic, force_version))
        /\ report' = NoReport
        /\ rd' = NoRead
        /\ UNCHANGED <<file, ops, origin, last, damaged, frag, xfer>>

\* PakWorker.test_integrity: check_integrity of the loaded index against the file
CheckIntegrity(ignore_null_checksums) ==
    LET Checked(r) ==
            report' = [valid |-> TRUE, err |-> r.err, hang |-> r.hang,
                       reports |-> r.reports, clean |-> parsed.clean,
                       ignore_null_checksums |-> ignore_null_checksums]
    IN  /\ parsed.valid /\ parsed.err = "" /\ parsed.force_version = None
        /\ report = NoReport /\ rd = NoRead
        /\ Checked(check_integrity(parsed.pak, file, ignore_null_checksums))
        /\ rd' = NoRead
        /\ UNCHANGED <<file, ops, origin, last, parsed, damaged, frag, xfer>>

\* the FUSE read handler: Record.read of record k of the loaded index
Read(k, offset, size) ==
    LET Done(r) ==
            rd' = [valid |-> TRUE, k |-> k, offset |-> offset, size |-> size,
                   err |-> r.err, buffer |-> r.buffer]
    IN  /\ last.op = "pack" /\ parsed.valid /\ parsed.err = "" /\ damaged = 0
        /\ parsed.force_version = None
        /\ k \in 1..Len(parsed.pak.records)
        /\ report = NoReport /\ rd = NoRead
        /\ Done(read(parsed.pak.records[k], file, offset, size))
        /\ report' = NoReport
        /\ UNCHANGED <<file, ops, origin, last, parsed, damaged, frag, xfer>>

\* the archive f with the entries of its index in the opposite order: the
\* records stay where they are, the index and the footer are written anew
reorder_index(f) ==
    LET RECURSIVE entries(_, _, _)
        entries(s, version, left) ==
            LET Entry(p, r) ==
                    <<<<p.path, SubSeq(f, p.s.pos + 1, r.s.pos)>>>>
                    \o entries(r.s, version, left - 1)
                Named(p) == Entry(p, read_record(version, p.s, p.path))
            IN  IF left = 0 THEN <<>> ELSE Named(read_path(s))
        Parsed(ri, mp) ==
            write_index(Stream(f, ri.pak.index_offset), ri.pak.version, ri.pak.mount_point,
                        Reverse(entries(advance(mp.s, 4), ri.pak.version,
                                        Len(ri.pak.records)))).f
        Index(ri) == Parsed(ri, read_path(Stream(f, ri.pak.index_offset)))
    IN  Index(read_index(Stream(f, 0), FALSE, None))

\* the archive comes from a tool that stores null checksums
NullChecksums ==
    /\ last.op = "pack" /\ last.err = "" /\ origin.arg \in NulledArgs
    /\ ~parsed.valid /\ damaged = 0
    /\ file' = null_checksums(file)
    /\ last' = [last EXCEPT !.op = "nulled", !.before = file]
    /\ UNCHANGED <<ops, origin, parsed, report, rd, damaged, frag, xfer>>

\* the archive comes from a tool that lists the records in its index in
\* another order than they lie in the file
ReorderIndex ==
    /\ last.op = "pack" /\ last.err = "" /\ origin.arg \in ReorderedArgs
    /\ ~parsed.valid /\ damaged = 0
    /\ file' = reorder_index(file)
    /\ last' = [last EXCEPT !.op = "reordered", !.before = file]
    /\ UNCHANGED <<ops, origin, parsed, report, rd, damaged, frag, xfer>>

\* the environment changes one byte of a packed archive that was loaded
Damage(i) ==
    /\ last.op \in {"pack", "nulled"} /\ last.err = ""
    /\ parsed.valid /\ parsed.err = "" /\ damaged = 0
    /\ parsed.force_version = None
    /\ report = NoReport /\ rd = NoRead
    /\ file' = [file EXCEPT ![i] = (@ + DamageDelta) % 256]
    /\ damaged' = i
    /\ report' = NoReport
    /\ rd' = NoRead
    /\ UNCHANGED <<ops, origin, last, parsed, frag, xfer>>


Next ==
    \/ \E a \in PackArgs : Pack(a)
    \/ \E a \in UpdateArgs : Update(a)
    \/ \E ignore_magic \in BOOLEAN, force_version \in ForcedVersions :
          ReadIndex(ignore_magic, force_version)
    \/ \E ignore_null_checksums \in BOOLEAN : CheckIntegrity(ignore_null_checksums)
    \/ \E k \in 1..3, offset \in 0..MaxWindow, size \in 0..MaxWindow : Read(k, offset, size)
    \/ \E i \in 1..Len(file) : Damage(i)
    \/ NullChecksums
    \/ ReorderIndex

Spec == Init /\ [][Next]_vars

(***************************************************************************)
(* The fragment map on its own: a FragInfo of some size, and calls of add  *)
(* with any arguments around that size.  The archive is not involved.      *)
(***************************************************************************)
\* the largest size of a fragment map
FragSize == 4

\* how many ranges are added to one fragment map
MaxAdds == 3

\* the arguments of add: from below 0 to beyond the size
FragArgs == -1..(FragSize + 1)

\* FragInfo(size)
InitFrag ==
    /\ file = <<>>
    /\ ops = 0
    /\ origin = NoOrigin
    /\ last = NoLast
    /\ parsed = NoParsed
    /\ report = NoReport
    /\ rd = NoRead
    /\ damaged = 0
    /\ frag \in {[NoFrag EXCEPT !.size = size] : size \in {0, FragSize - 1, FragSize}}
    /\ xfer = NoXfer

\* frag.add(new_start, new_end): a call that raises or adds nothing leaves
\* the map as it is
Add(new_start, new_end) ==
    LET Added(r) ==
            frag' = IF r.err # "" THEN [frag EXCEPT !.call = r.err]
                    ELSE IF new_start >= new_end THEN [frag EXCEPT !.call = "empty"]
                    ELSE [frag EXCEPT !.frags = r.frags, !.prev = frag.frags,
                                      !.added = Append(frag.added, <<new_start, new_end>>),
                                      !.call = "added"]
    IN  /\ Len(frag.added) < MaxAdds
        /\ Added(frag_add(frag.size, frag.frags, new_start, new_end))
        /\ UNCHANGED <<file, ops, origin, last, parsed, report, rd, damaged, xfer>>

NextFrag == \E new_start \in FragArgs, new_end \in FragArgs : Add(new_start, new_end)

SpecFrag == InitFrag /\ [][NextFrag]_vars

(***************************************************************************)
(* The bulk transfers on their own: one call of either sendfile from a     *)
(* source file into a destination, or one call of fshift on a stream.      *)
(***************************************************************************)
\* the length of the source file and of the stream
XferLen == 7

\* the source file, and the stream fshift works on: distinct bytes
XferData == [i \in 1..XferLen |-> 10 + i]

\* offsets and sizes: up to beyond the end of the source
XferArgs == 0..(XferLen + 1)

\* what the destination's buffer may hold when the transfer starts
Pendings == {<<>>, <<1>>}

\* sendfile(outfile, infile, offset, size) where os.sendfile exists
OsSendfile(pending, offset, size, has_fileno, sent) ==
    /\ xfer.op = "none"
    /\ xfer' = [os_sendfile([NoXfer EXCEPT !.pending = pending], XferData, offset, size,
                            has_fileno, sent)
                EXCEPT !.op = "os_sendfile",
                       !.args = <<pending, offset, size, has_fileno, sent>>]
    /\ UNCHANGED <<file, ops, origin, last, parsed, report, rd, damaged, frag>>

\* sendfile(outfile, infile, offset, size) where os.sendfile does not exist
HighlevelSendfile(pending, offset, size) ==
    /\ xfer.op = "none"
    /\ xfer' = [highlevel_sendfile([NoXfer EXCEPT !.pending = pending], XferData, offset,
                                   size)
                EXCEPT !.op = "highlevel_sendfile", !.args = <<pending, offset, size>>]
    /\ UNCHANGED <<file, ops, origin, last, parsed, report, rd, damaged, frag>>

\* fshift(stream, src, dst, size) on a stream that holds the source file
Fshift(src, dst, size, asserts) ==
    LET Shifted(r) ==
            xfer' = [NoXfer EXCEPT !.op = "fshift", !.args = <<src, dst, size, asserts>>,
                                   !.err = r.err, !.disk = r.s.f]
    IN  /\ xfer.op = "none"
        /\ Shifted(fshift(Stream(XferData, 0), src, dst, size, asserts))
        /\ UNCHANGED <<file, ops, origin, last, parsed, report, rd, damaged, frag>>

NextXfer ==
    \/ \E pending \in Pendings, offset \in XferArgs, size \in XferArgs,
          has_fileno \in BOOLEAN, sent \in 1..(XferLen + 1) :
          OsSendfile(pending, offset, size, has_fileno, sent)
    \/ \E pending \in Pendings, offset \in XferArgs, size \in XferArgs :
          HighlevelSendfile(pending, offset, size)
    \/ \E src \in XferArgs, dst \in XferArgs, size \in XferArgs, asserts \in BOOLEAN :
          Fshift(src, dst, size, asserts)

SpecXfer == Init /\ [][NextXfer]_vars

(***************************************************************************)
(* Pack, load, extract: Record.unpack of one record of the loaded archive  *)
(* into a file opened for writing, which is closed when unpack returns.    *)
(***************************************************************************)
Unpack(k, has_fileno, sent) ==
    /\ parsed.valid /\ parsed.err = ""
    /\ xfer.op = "none"
    /\ k \in 1..Len(parsed.pak.records)
    /\ xfer' = [record_sendfile(parsed.pak.records[k], NoXfer, file, has_fileno, sent)
                  EXCEPT !.op = "unpack", !.args = <<k, has_fileno, sent>>]
    /\ UNCHANGED <<file, ops, origin, last, parsed, report, rd, damaged, frag>>

NextUnpack ==
    \/ \E a \in PackArgs : Pack(a)
    \/ \E ignore_magic \in BOOLEAN, force_version \in ForcedVersions :
          ReadIndex(ignore_magic, force_version)
    \/ \E k \in 1..2, has_fileno \in BOOLEAN, sent \in 1..XferLen :
          Unpack(k, has_fileno, sent)

SpecUnpack == Init /\ [][NextUnpack]_vars

(***************************************************************************)
(* The plan of update on its own: the steps of update between read_index   *)
(* and the admission test (tree, removals, insertions, allocations), on    *)
(* the index of any version 2 archive of up to two records, listed in any  *)
(* order, with holes of several sizes between them.                        *)
(***************************************************************************)
\* a record of such an archive
PlanRecord(filename, offset, size) ==
    RecordV2(filename, offset, size, size, COMPR_NONE, NullSha1)

\* the records an archive may hold: at offsets that leave holes of 50, 52
\* and 110 bytes or none, with content of 0 or 2 bytes
PlanRecords ==
    {PlanRecord(n, o, z) : n \in {NameE, NameAX}, o \in {0, 50, 52, 110}, z \in {0, 2}}

\* the indexes: no record, one, or two of different names whose spans do
\* not overlap, in either order
PlanIndexes ==
    {<<>>} \cup {<<r>> : r \in PlanRecords}
    \cup {<<r1, r2>> : <<r1, r2>> \in
            {p \in PlanRecords \X PlanRecords :
                /\ p[1].filename # p[2].filename
                /\ \/ p[1].offset + alloc_size(p[1]) <= p[2].offset
                   \/ p[2].offset + alloc_size(p[2]) <= p[1].offset}}

\* update up to its plan, on the index `records`
PlanUpdate(records, insert, remove) ==
    LET Result(err, stage, pl) ==
            last' = [NoLast EXCEPT !.op = "update", !.err = err, !.stage = stage,
                                   !.arg = UpdateArg(insert, remove, COMPR_NONE, FALSE,
                                                     FreePlenty, TRUE),
                                   !.allocations = pl.allocations,
                                   !.index_offset = pl.index_offset,
                                   !.arch_size = pl.arch_size]
        Inserted(t3) ==
            IF t3.err # "" THEN Result(t3.err, "insert", NoPlan)
            ELSE Result("", "plan", plan(t3.tree))
        Removed(t2) ==
            IF t2.err # "" THEN Result(t2.err, "remove", NoPlan)
            ELSE Inserted(insert_files(t2.tree, 2, expand(insert)))
        Rebuilt(t1) ==
            IF t1.err # "" THEN Result(t1.err, "rebuild", NoPlan)
            ELSE Removed(remove_files(t1.tree, remove))
    IN  /\ last.op = "none"
        /\ Rebuilt(rebuild(<<>>, records))
        /\ UNCHANGED <<file, ops, origin, parsed, report, rd, damaged, frag, xfer>>

NextPlan ==
    \E records \in PlanIndexes,
       insert \in {<<>>, <<NameA>>, <<NameB>>, <<NameD>>, <<NameA, NameB>>,
                   <<NameB, NameA, NameD>>},
       remove \in {<<>>, <<NameE>>} :
        PlanUpdate(records, insert, remove)

SpecPlan == Init /\ [][NextPlan]_vars

(***************************************************************************)
(* Properties.                                                             *)
(***************************************************************************)
\* the bytes [offset, offset + size) of a file
Span(f, offset, size) == SubSeq(f, offset + 1, offset + size)

\* the last operation was an update that returned normally
UpdateDone == last.op = "update" /\ last.err = "" /\ last.stage = "done"

\* the allocations of the last update's plan that carry an existing record
Kept == {i \in 1..Len(last.allocations) : last.allocations[i].record.offset # -1}

\* the archive on disk, parsed again
Reparsed == read_index(Stream(file, 0), FALSE, None)

\* the archive the last operation started from, parsed
ParsedBefore == read_index(Stream(last.before, 0), FALSE, None)

\* the steps of update that come before its first write
ValidationStages == {"options", "read_index", "version", "rebuild", "remove", "insert",
                     "admission"}

\* C1: after an update whose commit completes, every kept existing record's
\* allocated span at its planned offset holds the bytes the span held at its
\* original offset before the update.
C1_KeptSpansPreserved ==
    UpdateDone =>
        \A i \in Kept :
            Span(file, last.allocations[i].offset, alloc_size(last.allocations[i].record))
            = Span(last.before, last.allocations[i].record.offset,
                   alloc_size(last.allocations[i].record))

\* index entry e is the planned allocation a: a's filename, the planned offset,
\* and a's header fields (for a new record: the size of the inserted file)
EntryOfAllocation(e, a) ==
    /\ e.filename = a.record.filename
    /\ e.offset = a.offset
    /\ e.uncompressed_size = a.record.uncompressed_size
    /\ e.compression_method = a.record.compression_method
    /\ a.record.offset # -1 => same_metadata(e, a.record)

\* C2: re-parsing the archive after a successful update yields exactly the
\* planned record set: one index entry per planned allocation, with that
\* record's filename, its planned offset and its own header fields.
C2_ReparseYieldsPlan ==
    UpdateDone =>
        /\ Reparsed.err = ""
        /\ Len(Reparsed.pak.records) = Len(last.allocations)
        /\ \A i \in 1..Len(last.allocations) :
              \E k \in 1..Len(Reparsed.pak.records) :
                  EntryOfAllocation(Reparsed.pak.records[k], last.allocations[i])

\* the file ends in a footer that describes the index before it, and the
\* index size counts every serialized index byte
AtRest(f) ==
    LET Footed(ri) ==
            /\ ri.err = ""
            /\ ri.pak.index_offset + ri.pak.index_size <= ri.pak.footer_offset
            /\ ri.pak.footer_offset + 44 = Len(f)
            /\ ri.s.pos = ri.pak.index_offset + ri.pak.index_size
    IN  Footed(read_index(Stream(f, 0), FALSE, None))

\* C3: at rest after pack and after every successful update the footer
\* invariants hold, and the final size the plan of update computes equals
\* the position just past the footer actually written.
C3_FooterInvariants ==
    /\ (last.op = "pack" /\ last.err = "" /\ damaged = 0) => AtRest(file)
    /\ UpdateDone => /\ AtRest(file)
                     /\ last.arch_size = last.end_pos
                     /\ last.arch_size = Len(file)

\* C4: an update that fails in a step before the commit leaves the bytes and
\* the length of the archive as they were.
C4_NoWriteBeforeValidation ==
    (last.op = "update" /\ last.err # "" /\ last.stage \in ValidationStages)
        => file = last.before

\* C4's case: update fails in the free-space admission check, after planning
C4_Witness ==
    /\ last.op = "update"
    /\ last.stage = "admission"
    /\ last.err = "ValueError: filesystem not big enough"
    /\ Len(last.allocations) >= 2
    /\ file = last.before
    /\ Len(file) > 44

\* the records of the last update's plan
Planned == [i \in 1..Len(last.allocations) |-> last.allocations[i].record]

\* the filenames of a sequence of records
Names(records) == {records[k].filename : k \in 1..Len(records)}

\* two entries of a sequence of records have the same filename
Doubled(records) ==
    \E i, j \in 1..Len(records) : i # j /\ records[i].filename = records[j].filename

\* the last operation was an update that got as far as building the tree
TreeBuilt == last.op = "update" /\ last.stage \notin {"options", "read_index", "version"}

\* C5: an update that only removes path P succeeds exactly when P names a file
\* of the archive, and then the planned record set is the original set minus
\* P; it fails in the remove step when P is absent or runs through a file.
C5_RemoveExactlyLeaves ==
    (TreeBuilt /\ last.stage # "rebuild" /\ last.arg.insert = <<>>
        /\ Len(last.arg.remove) = 1 /\ ~Doubled(ParsedBefore.pak.records))
    => IF last.arg.remove[1] \in Names(ParsedBefore.pak.records)
       THEN /\ last.err = ""
            /\ Names(Planned)
               = Names(ParsedBefore.pak.records) \ {last.arg.remove[1]}
       ELSE last.err # "" /\ last.stage = "remove" /\ file = last.before

\* path p runs through filename n: n is a proper prefix of p at a separator
Through(n, p) == Len(split(n)) < Len(split(p)) /\ IsPrefix(split(n), split(p))

\* C6: update fails when two records of the index have the same filename,
\* when an inserted path runs through a file, and when an inserted path is
\* the path of an entry still in the tree; no plan has a filename twice.
C6_ConflictsRejected ==
    TreeBuilt =>
        /\ Doubled(ParsedBefore.pak.records) => last.err # ""
        /\ (last.arg.remove = <<>> /\ ~Doubled(ParsedBefore.pak.records)
              /\ \E i \in 1..Len(last.arg.insert) :
                    \E n \in Names(ParsedBefore.pak.records) :
                        n = last.arg.insert[i] \/ Through(n, last.arg.insert[i]))
           => last.err # ""
        /\ ~Doubled(Planned)

\* record k of the parsed archive f holds exactly the file of that name
HoldsFile(f, r) ==
    /\ r.compression_method = COMPR_NONE
    /\ r.filename \in FsFiles
    /\ Span(f, r.offset + header_size(r), r.compressed_size) = FsContent(r.filename)

\* C7: on an uncompressed archive, an update that removes a file and inserts
\* the identical file under the identical name succeeds and leaves the archive
\* byte-for-byte as it was.
C7_RepackIdempotent ==
    (/\ TreeBuilt
     /\ Len(last.arg.remove) = 1
     /\ last.arg.insert = last.arg.remove
     /\ last.arg.cm = COMPR_NONE
     /\ ~last.arg.encrypted
     /\ last.arg.remove[1] \in Names(ParsedBefore.pak.records)
     /\ \A k \in 1..Len(ParsedBefore.pak.records) :
           HoldsFile(last.before, ParsedBefore.pak.records[k]))
    => (last.err = "" /\ file = last.before)

\* the record the last Record.read was called on
ReadRecord == parsed.pak.records[rd.k]

\* the full sequential decompression of all blocks of the record read
FullDecompression ==
    sendfile_blocks(file, base_offset(ReadRecord), ReadRecord.compression_blocks[1], <<>>)

\* a Record.read on a zlib block-compressed record has returned
ZlibRead ==
    /\ rd.valid
    /\ ReadRecord.compression_method = COMPR_ZLIB
    /\ ReadRecord.compression_blocks # None
    /\ ~ReadRecord.encrypted

\* C8: for a zlib block-compressed record, read(data, o, n) returns exactly
\* the bytes [o, min(o + n, uncompressed_size)) of the full sequential
\* decompression of all its blocks.
C8_RandomAccessEquivalence ==
    ZlibRead =>
        /\ FullDecompression.err = ""
        /\ Len(FullDecompression.out) = ReadRecord.uncompressed_size
        /\ rd.err = ""
        /\ rd.buffer = SubSeq(FullDecompression.out, rd.offset + 1,
                              Min(rd.offset + rd.size, ReadRecord.uncompressed_size))

\* C8's case: a window that starts inside the first block, spans the second
\* and ends in the shorter final block of a five-byte record
C8_Witness ==
    /\ ZlibRead
    /\ ReadRecord.uncompressed_size = 5
    /\ Len(ReadRecord.compression_blocks[1]) = 3
    /\ rd.offset = 1
    /\ rd.size = 4
    /\ rd.buffer = SubSeq(FsContent(NameB), 2, 5)

\* check_integrity has run on an archive that pack produced and nothing touched
CleanChecked == last.op = "pack" /\ last.err = "" /\ damaged = 0 /\ report.valid

\* C9: parsing an archive that pack just produced and running check_integrity
\* on it reports no error: the check returns and the sink receives nothing.
C9_CleanArchiveNoErrors ==
    CleanChecked => (report.err = "" /\ ~report.hang /\ report.reports = <<>>)

\* C9's case: the check of a version 3 archive of two zlib block-compressed
\* records, null checksums not ignored
C9_Witness ==
    /\ CleanChecked
    /\ origin.arg.version = 3
    /\ origin.arg.cm = COMPR_ZLIB
    /\ Len(parsed.pak.records) = 2
    /\ ~report.ignore_null_checksums
    /\ report.reports = <<>>

\* the content span of a record: its raw blocks if it has a block table,
\* else the compressed_size bytes after its header (1-based file positions)
ContentPositions(r) ==
    IF r.compression_blocks # None
    THEN UNION {(base_offset(r) + r.compression_blocks[1][b][1] + 1)
                    ..(base_offset(r) + r.compression_blocks[1][b][2]) :
                b \in 1..Len(r.compression_blocks[1])}
    ELSE (data_offset(r) + 1)..(data_offset(r) + r.compressed_size)

\* check_integrity has run with the index parsed from the fresh archive,
\* after one byte of the file was changed
DamagedChecked ==
    last.op = "pack" /\ last.err = "" /\ damaged # 0 /\ report.valid /\ report.clean

\* C10: when the changed byte lies in the content span of a record, the check
\* reports exactly one error, a checksum mismatch of that record.
C10_OneByteOneError ==
    DamagedChecked =>
        \A k \in 1..Len(parsed.pak.records) :
            damaged \in ContentPositions(parsed.pak.records[k]) =>
                /\ report.err = ""
                /\ ~report.hang
                /\ report.reports
                   = << <<Some(parsed.pak.records[k].filename), "checksum missmatch">> >>

\* C10's case: the changed byte is in a block of the second of two zlib
\* block-compressed records
C10_Witness ==
    /\ DamagedChecked
    /\ origin.arg.cm = COMPR_ZLIB
    /\ Len(parsed.pak.records) = 2
    /\ damaged \in ContentPositions(parsed.pak.records[2])
    /\ Len(report.reports) = 1
    /\ report.reports[1][1] = Some(NameB)

\* the bytes the content checksum of record r covers
ContentBytes(f, r) ==
    IF r.compression_blocks = None THEN read_n(f, data_offset(r), r.compressed_size)
    ELSE Flatten([b \in 1..Len(r.compression_blocks[1]) |->
                    read_n(f, base_offset(r) + r.compression_blocks[1][b][1],
                           r.compression_blocks[1][b][2] - r.compression_blocks[1][b][1])])

\* the content checksum check of record r is due and fails
ContentFails(f, r, policy) ==
    ~(policy /\ r.sha1 = NullSha1) /\ Sha1(ContentBytes(f, r)) # r.sha1

\* the number of checks on record r1 of archive pak in file f that fail; a
\* header that cannot be decoded again fails the metadata comparison
FailingRecordChecks(pak, f, r1, policy) ==
    LET Decoded(rr) ==
            (IF rr.ok THEN Len(metadata_reports(<<>>, r1, rr.rec, pak.index_offset)) ELSE 1)
            + (IF ContentFails(f, r1, policy) THEN 1 ELSE 0)
    IN  Decoded(read_record(pak.version, Stream(f, r1.offset), r1.filename))

\* the sum of a sequence of naturals
RECURSIVE Total(_)
Total(s) == IF s = <<>> THEN 0 ELSE Head(s) + Total(Tail(s))

\* the number of checks over the whole archive that fail
FailingChecks(pak, f, policy) ==
    (IF ~(policy /\ pak.index_sha1 = NullSha1)
        /\ Sha1(read_n(f, pak.index_offset, pak.index_size)) # pak.index_sha1
     THEN 1 ELSE 0)
    + Total([k \in 1..Len(pak.records) |->
               FailingRecordChecks(pak, f, pak.records[k], policy)])

\* C11: check_integrity with a recording sink evaluates every check of every
\* record: it returns, and the number of reports is the number of failing
\* checks over the whole archive.
C11_EveryCheckEvaluated ==
    report.valid =>
        /\ report.err = ""
        /\ ~report.hang
        /\ Len(report.reports) = FailingChecks(parsed.pak, file, report.ignore_null_checksums)

\* the sink received a report of this kind for the record of this name
ReportedFor(name, kind) ==
    \E i \in 1..Len(report.reports) : report.reports[i] = <<Some(name), kind>>

\* the header of record r decoded again from the file differs from r
MetadataDiffers(pak, f, r) ==
    LET Decoded(rr) == rr.ok /\ ~same_metadata(r, rr.rec)
    IN  Decoded(read_record(pak.version, Stream(f, r.offset), r.filename))

\* check_integrity has returned from a pass over records of distinct names
PassDone ==
    report.valid /\ report.err = "" /\ ~report.hang /\ ~Doubled(parsed.pak.records)

\* C12: with ignore_null_checksums, a record whose stored checksum is twenty
\* zero bytes gets neither a metadata-mismatch nor a checksum-mismatch
\* report; without the policy both comparisons are made for every record.
C12_NullChecksumPolicy ==
    PassDone =>
        \A k \in 1..Len(parsed.pak.records) :
            /\ (report.ignore_null_checksums /\ parsed.pak.records[k].sha1 = NullSha1)
               => /\ ~ReportedFor(parsed.pak.records[k].filename, "metadata missmatch")
                  /\ ~ReportedFor(parsed.pak.records[k].filename, "checksum missmatch")
            /\ ~report.ignore_null_checksums
               => /\ ReportedFor(parsed.pak.records[k].filename, "metadata missmatch")
                     <=> MetadataDiffers(parsed.pak, file, parsed.pak.records[k])
                  /\ ReportedFor(parsed.pak.records[k].filename, "checksum missmatch")
                     <=> ContentFails(file, parsed.pak.records[k], FALSE)

\* the records of the loaded index whose encrypted flag is set
EncryptedRecords ==
    {k \in 1..Len(parsed.pak.records) : parsed.pak.records[k].encrypted}

\* C13: Record.read and Record.sendfile fail with a not-supported error for
\* every record whose encrypted flag is set, pack called with encrypted = true
\* fails, and update called with it fails and leaves the archive as it was.
C13_EncryptionNeverIgnored ==
    /\ (origin.valid /\ origin.arg.encrypted) => origin.err = "NotImplementedError"
    /\ (last.op = "update" /\ last.arg.encrypted)
       => (last.err = "NotImplementedError" /\ file = last.before)
    /\ (parsed.valid /\ parsed.err = "")
       => \A k \in EncryptedRecords :
             /\ sendfile(parsed.pak.records[k], file).err = "NotImplementedError"
             /\ \A offset, size \in 0..MaxWindow :
                   read(parsed.pak.records[k], file, offset, size).err
                   = "NotImplementedError"

\* the fields of the footer of the archive on disk
Footer == SubSeq(file, Len(file) - 43, Len(file))
FooterMagic == SubSeq(Footer, 1, 4)
FooterVersion == UnLE(SubSeq(Footer, 5, 8))
FooterIndexEnd == UnLE(SubSeq(Footer, 9, 16)) + UnLE(SubSeq(Footer, 17, 24))

\* the version read_index goes by
EffectiveVersion(force_version) ==
    IF force_version # None THEN force_version[1] ELSE FooterVersion

\* what the result of read_index(ignore_magic, force_version) in parsed' must
\* be for the archive on disk
Validated(ignore_magic, force_version) ==
    /\ Len(file) < 44 => parsed'.err # ""
    /\ Len(file) >= 44 =>
        /\ (~ignore_magic /\ FooterMagic # MagicBytes)
           => parsed'.err = "ValueError: illegal file magic"
        /\ (ignore_magic \/ FooterMagic = MagicBytes)
           => /\ EffectiveVersion(force_version) \notin {1, 2, 3, 4, 7}
                 => parsed'.err = "ValueError: unsupported version"
              /\ (EffectiveVersion(force_version) \in {1, 2, 3, 4, 7}
                    /\ FooterIndexEnd > Len(file) - 44)
                 => parsed'.err = "ValueError: illegal index offset/size"
        /\ parsed'.err = ""
           => /\ parsed'.pos <= Len(file) - 44
              /\ parsed'.pak.version = EffectiveVersion(force_version)
              /\ parsed'.pak.footer_offset = Len(file) - 44
              /\ parsed'.pak.index_offset + parsed'.pak.index_size
                 <= parsed'.pak.footer_offset
    /\ parsed'.err # "" => parsed'.pak = NoPak

\* C14: read_index returns an archive only if the magic is right or ignored,
\* the effective version is one of 1, 2, 3, 4, 7, the index ends before the
\* footer and the cursor after the last entry is not past the footer offset;
\* otherwise it fails and returns none.
C14_ReadIndexValidates ==
    [][\A ignore_magic \in BOOLEAN, force_version \in ForcedVersions :
          ReadIndex(ignore_magic, force_version) => Validated(ignore_magic, force_version)]_vars

\* C14's case: an index whose last entry ends past the footer offset is
\* refused (a version 2 archive read as version 3)
C14_Witness ==
    /\ parsed.valid
    /\ parsed.err = "ValueError: index bleeds into footer"
    /\ parsed.force_version = Some(3)
    /\ parsed.pos > Len(file) - 44

\* the header of record r of the loaded index, decoded from the file
Redecoded(r) == read_record(parsed.pak.version, Stream(file, r.offset), r.filename)

\* the on-disk header of r declares a block table longer than the rest of the file
TableTooLong(r) ==
    /\ parsed.pak.version >= 3
    /\ UnLE(read_n(file, r.offset + 24, 4)) # COMPR_NONE
    /\ 16 * UnLE(read_n(file, r.offset + 48, 4)) > Len(file) - (r.offset + 52)

\* C15: decoding a record header returns no record when the decoded
\* compression method is not a known one, nor when the declared block count
\* needs more bytes for the block table than the stream has left.
C15_DecodeRejects ==
    (parsed.valid /\ parsed.err = "") =>
        \A k \in 1..Len(parsed.pak.records) :
            /\ parsed.pak.records[k].compression_method \in COMPR_METHODS
            /\ Redecoded(parsed.pak.records[k]).ok
               => Redecoded(parsed.pak.records[k]).rec.compression_method \in COMPR_METHODS
            /\ TableTooLong(parsed.pak.records[k]) => ~Redecoded(parsed.pak.records[k]).ok

\* the index of an untouched archive that pack wrote is loaded
FreshLoaded ==
    /\ last.op = "pack" /\ last.err = "" /\ damaged = 0
    /\ parsed.valid /\ parsed.err = "" /\ parsed.force_version = None

\* the block size write_record_v3 stores for the call of pack
StoredBlockSize ==
    IF origin.arg.cm = COMPR_ZLIB /\ origin.arg.cbs = 0 THEN 65536 ELSE origin.arg.cbs

\* the index copy r carries what the encoder was given for the file of its
\* name and what it wrote
EncodedFields(r) ==
    /\ r.filename \in FsFiles
    /\ r.uncompressed_size = Len(FsContent(r.filename))
    /\ r.compression_method = origin.arg.cm
    /\ r.timestamp = (IF origin.arg.version = 1 THEN Some(FsMtime(r.filename)) ELSE None)
    /\ r.encrypted = origin.arg.encrypted
    /\ r.compression_block_size
       = (IF origin.arg.version = 3 THEN Some(StoredBlockSize) ELSE None)
    /\ (r.compression_blocks # None) = (origin.arg.cm = COMPR_ZLIB)
    /\ r.compressed_size = Len(ContentBytes(file, r))
    /\ r.sha1 = Sha1(ContentBytes(file, r))
    /\ sendfile(r, file) = [err |-> "", out |-> FsContent(r.filename)]

\* where the record after r starts: after r's on-disk header and content
EndOf(r) == Redecoded(r).s.pos + r.compressed_size

\* C16: for every record pack writes (versions 1, 2, 3), the header in front
\* of the content decodes to the index copy on every field except the offset,
\* which is 0 on disk; the index copy carries the encoded fields and the
\* offset the record was written at.
C16_RecordRoundTrip ==
    FreshLoaded =>
        /\ \A k \in 1..Len(parsed.pak.records) :
              /\ EncodedFields(parsed.pak.records[k])
              /\ Redecoded(parsed.pak.records[k]).ok
              /\ Redecoded(parsed.pak.records[k]).rec
                 = [parsed.pak.records[k] EXCEPT !.offset = 0]
              /\ parsed.pak.records[k].offset
                 = (IF k = 1 THEN 0 ELSE EndOf(parsed.pak.records[k - 1]))
        /\ parsed.pak.records # <<>>
           => parsed.pak.index_offset = EndOf(Last(parsed.pak.records))

\* C16's case: a zlib block-compressed record written at a non-zero offset
C16_Witness ==
    /\ FreshLoaded
    /\ Len(parsed.pak.records) = 2
    /\ parsed.pak.records[2].offset > 0
    /\ parsed.pak.records[2].compression_blocks # None
    /\ Redecoded(parsed.pak.records[2]).rec.offset = 0
    /\ Len(Redecoded(parsed.pak.records[2]).rec.compression_blocks[1]) = 3

(***************************************************************************)
(* Properties of the fragment map.                                         *)
(***************************************************************************)
\* a range that lies within [0, size]
InBounds(size, range) == 0 <= range[1] /\ range[2] <= size

\* the ranges are sorted ascending by start, none is empty, and a range
\* ends before the next one starts
Separated(frags) ==
    /\ \A i \in 1..Len(frags) : frags[i][1] < frags[i][2]
    /\ \A i \in 1..(Len(frags) - 1) : frags[i][2] < frags[i + 1][1]

\* C19: after any sequence of calls of add, successful or failing, with any
\* integer arguments, the stored ranges are sorted ascending by start, every
\* range is non-empty, consecutive ranges neither overlap nor touch, and
\* every range lies within [0, total_size].
C19_MapInvariant ==
    /\ Separated(frag.frags)
    /\ \A i \in 1..Len(frag.frags) : InBounds(frag.size, frag.frags[i])

\* the positions a list of ranges covers
Covered(frags) == UNION {frags[i][1]..(frags[i][2] - 1) : i \in 1..Len(frags)}

\* every range that was added to the map lies within [0, size]
AddedInBounds == \A i \in 1..Len(frag.added) : InBounds(frag.size, frag.added[i])

\* the last call of add added a range to a map that held ranges already
AddedLast == frag.call = "added" /\ AddedInBounds

\* the positions covered once the last range is added to those before it
UnionLast == Covered(frag.prev) \cup Covered(<<frag.added[Len(frag.added)]>>)

\* C20: after add(start, end) of an in-bounds range with start < end, the
\* covered positions are exactly those covered before together with
\* [start, end), also when the new range lies strictly inside an existing
\* one, and free() is total_size minus the size of that union.
C20_AddCoversUnion ==
    AddedLast =>
        /\ Covered(frag.frags) = UnionLast
        /\ frag_free(frag.size, frag.frags) = frag.size - Cardinality(UnionLast)

\* the map that adding the ranges of a list, in its order, to an empty map
\* of the size gives
RECURSIVE AddAll(_, _)
AddAll(size, ranges) ==
    IF ranges = <<>> THEN <<>>
    ELSE frag_add(size, AddAll(size, SubSeq(ranges, 1, Len(ranges) - 1)),
                  ranges[Len(ranges)][1], ranges[Len(ranges)][2]).frags

\* the orders of n things
Orders(n) == {p \in [1..n -> 1..n] : \A i, j \in 1..n : p[i] = p[j] => i = j}

\* C17: for every multiset of in-bounds ranges (repeated, overlapping,
\* touching and nested ones included) and every two orders of adding them to
\* a fragment map of the same size, the resulting stored lists of ranges are
\* identical: every order of the added ranges gives the list the map holds.
C17_OrderIndependent ==
    AddedInBounds =>
        \A p \in Orders(Len(frag.added)) :
            AddAll(frag.size, [i \in 1..Len(frag.added) |-> frag.added[p[i]]]) = frag.frags

\* the maximal runs of positions of [0, size) that a list of ranges leaves
\* uncovered
Gaps(size, frags) ==
    {g \in (0..size) \X (0..size) :
        /\ g[1] < g[2]
        /\ \A x \in g[1]..(g[2] - 1) : x \notin Covered(frags)
        /\ g[1] = 0 \/ (g[1] - 1) \in Covered(frags)
        /\ g[2] = size \/ g[2] \in Covered(frags)}

\* the inverted map of the map
Inverted == frag_invert(frag.size, frag.frags)

\* C18: for every fragment map reachable by calls of add, invert() holds
\* exactly the maximal gaps of [0, total_size) that the map leaves uncovered,
\* in ascending order, and inverting the inverted map gives the list of
\* ranges of the map again.
C18_InvertIsComplement ==
    /\ {Inverted[i] : i \in 1..Len(Inverted)} = Gaps(frag.size, frag.frags)
    /\ Separated(Inverted)
    /\ frag_invert(frag.size, Inverted) = frag.frags

(***************************************************************************)
(* Properties of the bulk transfers.                                       *)
(***************************************************************************)
\* what the destination file holds once the writer is closed
Closed(out) == out.disk \o out.pending

\* the buffered copy loop on the arguments of the transfer that was made
Buffered ==
    highlevel_sendfile([NoXfer EXCEPT !.pending = xfer.args[1]], XferData, xfer.args[2],
                       xfer.args[3])

\* C21: the platform zero-copy path and the portable buffered copy loop are
\* observably equivalent: for every source, offset and size they leave the
\* destination holding the same bytes in the same positions and report the
\* same outcome, also when the source has fewer than size bytes after
\* offset, when the primitive transfers fewer bytes than requested, and when
\* the destination has buffered writes pending.
C21_TransferPathsEquivalent ==
    xfer.op = "os_sendfile" =>
        /\ xfer.err = Buffered.err
        /\ Closed(xfer) = Closed(Buffered)

\* fshift was called to move a span that the stream holds to a lower offset
MovedBack ==
    /\ xfer.op = "fshift"
    /\ xfer.args[2] < xfer.args[1]
    /\ xfer.args[1] + xfer.args[3] <= XferLen

\* C23: for every source offset src, destination offset dst < src and size
\* (overlapping spans included; size larger than, equal to, or not a
\* multiple of the chunk size) the chunked highest-address-first transfer
\* completes, never reads a byte it has overwritten, and [dst, dst + size)
\* then holds exactly the bytes that [src, src + size) held before.
C23_ShiftCopiesSpan ==
    MovedBack =>
        /\ xfer.err = ""
        /\ Span(xfer.disk, xfer.args[2], xfer.args[3]) = Span(XferData, xfer.args[1], xfer.args[3])

(***************************************************************************)
(* Properties of the plan and the commit of update.                        *)
(***************************************************************************)
\* the last operation was an update that computed its plan
HasPlan == last.op = "update" /\ last.stage \in {"plan", "admission", "commit", "done"}

\* the existing records of the plan, in the order the plan lays them out
Existing == SelectSeq(Planned, LAMBDA r : r.offset # -1)

\* the spans of the existing records do not overlap
SpansDisjoint ==
    \A i, j \in 1..Len(Existing) :
        i # j => \/ Existing[i].offset + alloc_size(Existing[i]) <= Existing[j].offset
                 \/ Existing[j].offset + alloc_size(Existing[j]) <= Existing[i].offset

\* C22: plan invariant: for every archive whose existing records occupy
\* pairwise non-overlapping spans, whatever order the index lists them in,
\* and for every set of removals and insertions, the existing records are
\* laid out in ascending original-offset order and the planned offset of
\* every existing record is at most its original offset.
C22_AnchorsAscendAndMoveBack ==
    (HasPlan /\ SpansDisjoint) =>
        /\ \A i \in 1..(Len(Existing) - 1) : Existing[i].offset < Existing[i + 1].offset
        /\ \A i \in Kept : last.allocations[i].offset <= last.allocations[i].record.offset

\* the allocations of the last update's plan that carry a new record
New == {i \in 1..Len(last.allocations) : last.allocations[i].record.offset = -1}

\* the header that the file holds at an offset, decoded as a record of the
\* archive's version
HeaderAt(offset) == read_record(ParsedBefore.pak.version, Stream(file, offset), <<>>)

\* the file holds the new record of allocation a at a's planned offset: its
\* header there, its content up to the end of the allocated span, and an
\* index entry that points there
WrittenAtPlan(a) ==
    /\ HeaderAt(a.offset).ok
    /\ HeaderAt(a.offset).rec.uncompressed_size = a.record.uncompressed_size
    /\ Span(file, a.offset + header_size(a.record), a.record.compressed_size)
       = FsContent(a.record.filename)
    /\ \E k \in 1..Len(Reparsed.pak.records) :
          /\ Reparsed.pak.records[k].filename = a.record.filename
          /\ Reparsed.pak.records[k].offset = a.offset

\* C24: during commit every new record is written starting exactly at its
\* planned offset: its header begins there, its content ends at planned
\* offset + alloc_size, and the offset stored in its index entry is the
\* planned offset, wherever the preceding step left the stream cursor.
C24_NewRecordsAtPlannedOffset ==
    (UpdateDone /\ last.arg.cm = COMPR_NONE) =>
        \A i \in New : WrittenAtPlan(last.allocations[i])

(***************************************************************************)
(* Properties of the written records.                                      *)
(***************************************************************************)
\* the source file of record r cut into the chunks the compression loop
\* reads, each compressed on its own
CompressedChunks(r) ==
    [b \in 1..BlockCount(r.uncompressed_size, StoredBlockSize) |->
        zlib_compress(Span(FsContent(r.filename), (b - 1) * StoredBlockSize,
                           Min(StoredBlockSize,
                               r.uncompressed_size - (b - 1) * StoredBlockSize)))]

\* the checksum of check 6 for a record with blocks: over the bytes at
\* base_offset + (start, end) of every block, in block order
Check6(r) == Digest(hash_blocks(file, base_offset(r), r.compression_blocks[1], HashInit).h)

\* the records with a block table of the archive that is loaded
BlockRecords ==
    {k \in 1..Len(parsed.pak.records) : parsed.pak.records[k].compression_blocks # None}

\* C25: for every block-compressed record the write path wrote, the stored
\* content checksum is the SHA-1 of the concatenation, in block order, of
\* the compressed block bytes as they lie on disk, not of the uncompressed
\* content, and it is the value the verifier recomputes in check 6.
C25_ChecksumOverCompressedBytes ==
    FreshLoaded =>
        \A k \in BlockRecords :
            /\ ContentBytes(file, parsed.pak.records[k])
               = Flatten(CompressedChunks(parsed.pak.records[k]))
            /\ parsed.pak.records[k].sha1 = Sha1(ContentBytes(file, parsed.pak.records[k]))
            /\ parsed.pak.records[k].sha1 = Check6(parsed.pak.records[k])
            /\ parsed.pak.records[k].sha1 # Sha1(FsContent(parsed.pak.records[k].filename))
            /\ Redecoded(parsed.pak.records[k]).rec.sha1 = parsed.pak.records[k].sha1

\* an archive with a record of three compressed blocks is loaded
C25_Witness ==
    /\ FreshLoaded
    /\ \E k \in BlockRecords : Len(parsed.pak.records[k].compression_blocks[1]) = 3

\* the blocks of record r lie one after the other, as many as the size
\* needs, and their lengths sum to the compressed size
BlocksContiguous(r) ==
    LET blocks == r.compression_blocks[1] IN
    /\ \A b \in 1..(Len(blocks) - 1) : blocks[b + 1][1] = blocks[b][2]
    /\ Len(blocks) = BlockCount(r.uncompressed_size, StoredBlockSize)
    /\ Total([b \in 1..Len(blocks) |-> blocks[b][2] - blocks[b][1]]) = r.compressed_size

\* a record without compression holds as many bytes as its file
PlainSized(r) == r.compression_method = COMPR_NONE => r.compressed_size = r.uncompressed_size

\* C26 as stated: for every record the block-compressed write path wrote
\* with at least one block, the blocks are contiguous, there are
\* ceil(size / compression_block_size) of them, their lengths sum to
\* compressed_size and the end of the last block equals compressed_size; for
\* every uncompressed record written, compressed_size = uncompressed_size.
C26_LastBlockEndIsCompressedSize ==
    FreshLoaded =>
        /\ \A k \in BlockRecords :
              /\ BlocksContiguous(parsed.pak.records[k])
              /\ Last(parsed.pak.records[k].compression_blocks[1])[2]
                 = parsed.pak.records[k].compressed_size
        /\ \A k \in 1..Len(parsed.pak.records) : PlainSized(parsed.pak.records[k])

\* where write_record_v3 puts the first content byte of a record with a
\* block table: after the 48 bytes of fixed fields, the block count, the
\* table, the encrypted flag and the block size
FirstContentByte(r) == r.offset + 48 + 4 + 16 * Len(r.compression_blocks[1]) + 5

\* C26 as amended: the blocks are contiguous, ceil(size /
\* compression_block_size) in number, and their lengths sum to
\* compressed_size; block offsets are file positions: the first block
\* starts at the record's first content byte and the last block ends
\* compressed_size bytes after it; an uncompressed record has
\* compressed_size = uncompressed_size.
C26_BlocksSpanTheContent ==
    FreshLoaded =>
        /\ \A k \in BlockRecords :
              /\ BlocksContiguous(parsed.pak.records[k])
              /\ parsed.pak.records[k].compression_blocks[1][1][1]
                 = FirstContentByte(parsed.pak.records[k])
              /\ Last(parsed.pak.records[k].compression_blocks[1])[2]
                 = FirstContentByte(parsed.pak.records[k])
                   + parsed.pak.records[k].compressed_size
        /\ \A k \in 1..Len(parsed.pak.records) : PlainSized(parsed.pak.records[k])

\* an archive is loaded whose second record has three blocks
C26_Witness ==
    /\ FreshLoaded
    /\ Len(parsed.pak.records) = 2
    /\ 2 \in BlockRecords
    /\ Len(parsed.pak.records[2].compression_blocks[1]) = 3
    /\ parsed.pak.records[2].offset > 0

\* the number of bytes of a record's header in the wire format
WireHeaderSize(r) ==
    CASE r.cls = "V1" -> 56
      [] r.cls = "V2" -> 48
      [] OTHER -> IF r.compression_method = COMPR_NONE THEN 48 + 5
                  ELSE 48 + 4 + 16 * Len(r.compression_blocks[1]) + 5

\* where the span of the k-th record of the loaded archive ends in the file:
\* at the next record, at the index after the last one
SpanEnd(k) ==
    IF k < Len(parsed.pak.records) THEN parsed.pak.records[k + 1].offset
    ELSE parsed.pak.index_offset

\* the fragment map of the loaded archive
LoadedMap == frag_info(parsed.pak)

\* C27: for every schema version and compression method, header_size is the
\* number of bytes the encoder writes between the record's offset and its
\* first content byte (v1: 56; v2: 48; v3 uncompressed: 48 + 5; v3
\* compressed: 48 + 4 + 16 x block_count + 5), so data_offset is the
\* position of the first content byte, [offset, offset + alloc_size) is the
\* span the record occupies, and the fragment map of a freshly packed
\* archive has free() = 0.
C27_HeaderSizeMatchesWire ==
    FreshLoaded =>
        /\ \A k \in 1..Len(parsed.pak.records) :
              /\ header_size(parsed.pak.records[k]) = WireHeaderSize(parsed.pak.records[k])
              /\ Span(file, data_offset(parsed.pak.records[k]),
                      parsed.pak.records[k].compressed_size)
                 = ContentBytes(file, parsed.pak.records[k])
              /\ parsed.pak.records[k].offset + alloc_size(parsed.pak.records[k]) = SpanEnd(k)
        /\ LoadedMap.err = ""
        /\ frag_free(LoadedMap.size, LoadedMap.frags) = 0

(***************************************************************************)
(* Termination of check_integrity.  A checksum pass hangs when its loop    *)
(* reaches a state it cannot leave: at least a buffer's worth of bytes is  *)
(* still due and the cursor is at the end of the file, so every readinto   *)
(* returns 0 and the remaining size never changes.                         *)
(***************************************************************************)
\* C30: check_integrity terminates for every parsed archive and every
\* underlying file: each checksum pass over a span ends after finitely many
\* reads, also when the declared span extends past the end of the file and
\* a read returns fewer bytes than requested, or none.
C30_CheckIntegrityTerminates == report.valid => ~report.hang

\* the allocated span of allocation i of the plan ends here
AllocEnd(i) == last.allocations[i].offset + alloc_size(last.allocations[i].record)

\* the anchors (existing records) that the plan lays out behind allocation i
AnchorsBehind(i) == {j \in Kept : j > i}

\* the new records of the plan that come after the last anchor
Leftover == {i \in New : AnchorsBehind(i) = {}}

\* C28: in every plan the update computes, the allocated spans
\* [planned offset, planned offset + alloc_size) of all records are gap-free
\* from 0 (the first starts at 0, each next one starts where the previous
\* ends, hence they are pairwise disjoint), index_offset is the end of the
\* last span, every new record placed in front of an anchor ends at or
\* before that anchor's original offset, and the new records that fit no gap
\* come after the last anchor in ascending filename order.
C28_PlanIsGapFree ==
    HasPlan =>
        /\ \A i \in 1..Len(last.allocations) :
              last.allocations[i].offset = IF i = 1 THEN 0 ELSE AllocEnd(i - 1)
        /\ \A i, j \in 1..Len(last.allocations) :
              i < j => AllocEnd(i) <= last.allocations[j].offset
        /\ last.index_offset
           = IF last.allocations = <<>> THEN 0 ELSE AllocEnd(Len(last.allocations))
        /\ \A i \in New : \A j \in AnchorsBehind(i) :
              (\A k \in AnchorsBehind(i) : j <= k)
                  => AllocEnd(i) <= last.allocations[j].record.offset
        /\ \A i, j \in Leftover :
              i < j => StrLess(Planned[i].filename, Planned[j].filename)

\* a plan with a new record in a hole in front of an anchor and another new
\* record, too large for the hole, after the last anchor
C28_Witness ==
    /\ HasPlan /\ last.err = ""
    /\ \E i \in New : AnchorsBehind(i) # {}
    /\ \E i \in Leftover : \E j \in Kept :
          /\ last.allocations[j].offset < last.allocations[j].record.offset
          /\ last.allocations[j].offset + alloc_size(Planned[i])
             > last.allocations[j].record.offset

\* the files pack was called with, as pack orders them
PackedFiles == SortBy(expand(origin.arg.files), "name")

\* where the bytes that pack wrote for record r end in the file: after the
\* content, which for a record with blocks ends with its last block
WrittenEnd(r) ==
    IF r.compression_blocks = None \/ r.compression_blocks = Some(<<>>)
    THEN r.offset + WireHeaderSize(r) + r.compressed_size
    ELSE base_offset(r) + Last(r.compression_blocks[1])[2]

\* where the writer placed block b of record r: the first one at the
\* record's first content byte, each next one after the compressed bytes
\* of the blocks before it
PlacedAt(r, b) ==
    FirstContentByte(r)
    + Total([c \in 1..(b - 1) |-> Len(CompressedChunks(r)[c])])

\* C29: pack/extract round trip: for every list of source files and every
\* configuration pack accepts, parsing the packed archive and extracting
\* every record in sequence reproduces each source file's bytes; the
\* reader's base_offset + block start is the file position at which the
\* writer placed that block; the records appear in the index in sorted
\* filename order at contiguous ascending offsets.
C29_PackExtractRoundTrip ==
    FreshLoaded =>
        /\ Len(parsed.pak.records) = Len(PackedFiles)
        /\ \A k \in 1..Len(parsed.pak.records) :
              /\ parsed.pak.records[k].filename = PackedFiles[k]
              /\ parsed.pak.records[k].offset
                 = IF k = 1 THEN 0 ELSE WrittenEnd(parsed.pak.records[k - 1])
              /\ k > 1 => /\ parsed.pak.records[k - 1].offset < parsed.pak.records[k].offset
                          /\ ~StrLess(PackedFiles[k], PackedFiles[k - 1])
        /\ parsed.pak.index_offset
           = IF parsed.pak.records = <<>> THEN 0
             ELSE WrittenEnd(Last(parsed.pak.records))
        /\ \A k \in BlockRecords :
              \A b \in 1..Len(parsed.pak.records[k].compression_blocks[1]) :
                  base_offset(parsed.pak.records[k])
                  + parsed.pak.records[k].compression_blocks[1][b][1]
                  = PlacedAt(parsed.pak.records[k], b)
        /\ xfer.op = "unpack"
           => /\ xfer.err = ""
              /\ Closed(xfer) = FsContent(PackedFiles[xfer.args[1]])

====
